---- MODULE Spec2Model ----
(***************************************************************************)
(* A model of the session lifecycle engine of the ambient platform: the    *)
(* Session and NamespacePolicy resources in the declarative store, the     *)
(* admission validator (operator/pkg/webhooks), the Session and Policy     *)
(* reconcilers (operator/internal/controllers), the status updater         *)
(* (operator/pkg/status), the backend SessionManager and the webhook       *)
(* handler (backend/pkg/handlers).                                         *)
(*                                                                         *)
(* Go maps read with `v, ok := m[k].(T)` are records with a presence flag  *)
(* (has...) next to the value.  Lists that the code only searches are      *)
(* sets.  A budget is its amount in cents.  time.Now() is the constant     *)
(* Now: no modelled decision reads a timestamp.                            *)
(***************************************************************************)
EXTENDS Integers, Sequences, FiniteSets, TLC

VARIABLES
    sessions,   \* the store: Session resources by name
    policy,     \* the store: the NamespacePolicy "policy" of each namespace
    jobs,       \* the orchestrator: the runner Job of each Session name
    nextId,     \* number of Session names handed out so far
    rec,        \* SessionReconciler: the reconcile in flight
    pol,        \* PolicyReconciler: the reconcile in flight
    upd,        \* SessionStatusUpdater: the transition in flight
    api,        \* SessionManager.UpdateSessionStatus: the call in flight
    responses,  \* HTTP responses the webhook handler has sent
    adm,        \* the last admission review and its response
    exchanges,  \* read-API requests served, each with its response
    resolved,   \* NamespaceResolver: the namespaces each API key has resolved to
    workloads,  \* WorkloadCreator: its Job of each Session name, and its last answer
    artifacts,  \* ArtifactIndexer: the index, the storage and the last listing
    authed      \* WebhookAuthMiddleware: its configuration, and the last request
                \* it answered with its answer

vars == <<sessions, policy, jobs, nextId, rec, pol, upd, api, responses, adm, exchanges, resolved,
         workloads, artifacts, authed>>

----------------------------------------------------------------------------
(* Bounds of the model *)

MaxSessions == 2    \* Session names available to the store
MaxHistory == 3     \* a writer stops appending at this history length
MaxVersion == 4     \* store writes per Session
MaxRequests == 2    \* webhook requests answered
MaxAdmHistory == 2  \* length of the histories offered to the validator

----------------------------------------------------------------------------
(* Values *)

Nil == "nil"        \* a nil error
Now == "now"        \* time.Now().UTC().Format(time.RFC3339)

PhasePending == "Pending"
PhaseRunning == "Running"
PhaseCompleted == "Completed"
PhaseFailed == "Failed"
PhaseStopped == "Stopped"
PhaseTimedOut == "TimedOut"
NoPhase == ""       \* status.phase unset

\* status.phase as the data model enumerates it
SessionPhases ==
    {PhasePending, PhaseRunning, PhaseCompleted, PhaseFailed, PhaseStopped, PhaseTimedOut}

TerminalPhases == {PhaseCompleted, PhaseFailed, PhaseStopped, PhaseTimedOut}

Namespaces == {"team-alpha", "team-beta", "team-gamma"}

Models == {"claude-3-sonnet", "claude-3-opus"}
Tools == {"bash", "edit", "read", "write"}

SessionIds == 1..MaxSessions

\* A list-valued field of a Go map: absent, or present with its items.
NoList == [has |-> FALSE, items |-> {}]
List(s) == [has |-> TRUE, items |-> s]

----------------------------------------------------------------------------
(* The Session resource *)

NoStatus ==
    [present |-> FALSE, phase |-> NoPhase, hasHistory |-> FALSE, history |-> <<>>,
     conditions |-> <<>>, jobName |-> "", violationReason |-> "", message |-> ""]

\* spec.framework.type: shape is how much of the path spec.framework.type exists
\* ("nospec", "noframework", "notype", "typed").
\* models/tools: spec.policy.{model,tool}Constraints.allowed; budget:
\* spec.policy.modelConstraints.budget.
\* trigger: spec.trigger = {source, event, payload}.
SessionSpec(shape, type, models, tools, budget, trigger) ==
    [shape |-> shape, type |-> type, models |-> models, tools |-> tools,
     budget |-> budget, trigger |-> trigger, stop |-> FALSE]

\* A webhook request body: valid says whether it parses as JSON, action is the
\* field its source reads the event from ("action", "webhookEvent", "type"),
\* tenantHint stands for every field of the body that names a
\* tenant (a namespace, a repository owner, a project key, a channel).
Payload(valid, action, tenantHint) ==
    [valid |-> valid, action |-> action, tenantHint |-> tenantHint]

NoPayload == Payload(TRUE, "", "")

Trigger(source, event, payload) ==
    [source |-> source, event |-> event, payload |-> payload]

ManualTrigger == Trigger("manual", "", NoPayload)

EmptySpec == SessionSpec("nospec", "", NoList, NoList, 0, ManualTrigger)

NoSession ==
    [exists |-> FALSE, ns |-> "", spec |-> EmptySpec, status |-> NoStatus, rv |-> 0,
     age |-> 0]

\* The NamespacePolicy resource.  models/tools/frameworks: has says whether the
\* section exists in spec; monthly is spec.models.budget.monthly, used is
\* status.usage.budget.currentPeriod; retention is spec.retention.sessions in
\* days, 0 when it is not given.
PolicySection(has, allowed, blocked) ==
    [has |-> has, allowed |-> allowed, blocked |-> blocked]

NoSection == PolicySection(FALSE, NoList, NoList)

\* spec.webhookAuth: apiKeys is a set of [source, key] entries, the numbers
\* of rateLimit are values of a JSON document (NoValue when absent).
WebhookAuth(apiKeys, requestsPerMinute, burstSize) ==
    [has |-> TRUE, apiKeys |-> apiKeys, requestsPerMinute |-> requestsPerMinute,
     burstSize |-> burstSize]

\* A value of a decoded JSON document.  A number is kept in tenths, so 285
\* is 28.5; kind is "int" (int64), "float" (float64), "string" (the text of
\* the number), "bool" or "absent".
Value(kind, tenths) == [kind |-> kind, tenths |-> tenths]

NoValue == Value("absent", 0)

IntValue(n) == Value("int", n * 10)

NoWebhookAuth ==
    [has |-> FALSE, apiKeys |-> {}, requestsPerMinute |-> NoValue, burstSize |-> NoValue]

\* status.usage.sessions of a NamespacePolicy; present says whether
\* status.usage has been written.
Usage(active, total) == [present |-> TRUE, active |-> active, total |-> total]

NoUsage == [present |-> FALSE, active |-> 0, total |-> 0]

NoPolicy ==
    [exists |-> FALSE, models |-> NoSection, tools |-> NoSection,
     frameworks |-> NoSection, monthly |-> 0, used |-> 0,
     webhookAuth |-> NoWebhookAuth, usage |-> NoUsage,
     resetDay |-> NoValue, retention |-> 0, conditions |-> <<>>]

NamespacePolicy(models, tools, frameworks, monthly, used) ==
    [exists |-> TRUE, models |-> models, tools |-> tools,
     frameworks |-> frameworks, monthly |-> monthly, used |-> used,
     webhookAuth |-> NoWebhookAuth, usage |-> NoUsage,
     resetDay |-> NoValue, retention |-> 0, conditions |-> <<>>]

----------------------------------------------------------------------------
(* SessionValidator (operator/pkg/webhooks/session_validator.go) *)

availableFrameworks == {"claude-code", "custom-python", "bash-runner"}

\* validateFrameworkType without the lookup in availableFrameworks
validateFrameworkTypePresenceOnly(spec) ==
    IF spec.shape = "nospec" THEN "spec field is required"
    ELSE IF spec.shape = "noframework" THEN "spec.framework field is required"
    ELSE IF spec.shape = "notype" THEN "spec.framework.type field is required"
    ELSE Nil

validateFrameworkType(spec) ==
    IF spec.shape = "nospec" THEN "spec field is required"
    ELSE IF spec.shape = "noframework" THEN "spec.framework field is required"
    ELSE IF spec.shape = "notype" THEN "spec.framework.type field is required"
    ELSE IF spec.type \notin availableFrameworks THEN "unsupported framework type"
    ELSE Nil

validateFrameworkConstraints(spec, p) ==
    IF spec.shape \in {"nospec", "noframework"} THEN Nil
    ELSE IF ~p.frameworks.has THEN Nil
    ELSE IF p.frameworks.blocked.has /\ spec.type \in p.frameworks.blocked.items
        THEN "framework type is blocked by namespace policy"
    ELSE IF p.frameworks.allowed.has /\ spec.type \notin p.frameworks.allowed.items
        THEN "framework type is not in allowed list"
    ELSE Nil

\* the check of the allowed list alone, as the Session reconciler makes it
validateConstraintsAllowedOnly(requested, section, what) ==
    IF ~requested.has THEN Nil
    ELSE IF ~section.has THEN Nil
    ELSE IF section.allowed.has
            /\ \E r \in requested.items : r \notin section.allowed.items
        THEN what \o " is not allowed by namespace policy"
    ELSE Nil

\* validateModelConstraints and validateToolConstraints are the same code over
\* the models and the tools section: requested is the session's list, section
\* the policy's.
validateConstraints(requested, section, what) ==
    IF ~requested.has THEN Nil
    ELSE IF ~section.has THEN Nil
    ELSE IF section.allowed.has
            /\ \E r \in requested.items : r \notin section.allowed.items
        THEN what \o " is not allowed by namespace policy"
    ELSE IF section.blocked.has
            /\ \E r \in requested.items : r \in section.blocked.items
        THEN what \o " is blocked by namespace policy"
    ELSE Nil

validateModelConstraints(spec, p) == validateConstraints(spec.models, p.models, "model")

validateToolConstraints(spec, p) == validateConstraints(spec.tools, p.tools, "tool")

validateSessionAgainstPolicy(spec, p) ==
    IF validateFrameworkConstraints(spec, p) # Nil
        THEN validateFrameworkConstraints(spec, p)
    ELSE IF validateModelConstraints(spec, p) # Nil
        THEN validateModelConstraints(spec, p)
    ELSE validateToolConstraints(spec, p)

\* getFails: the Get of the policy fails with an error other than NotFound
validateAgainstNamespacePolicy(ns, spec, p, getFails) ==
    IF ns = "" THEN "namespace is required"
    ELSE IF getFails THEN "failed to get namespace policy"
    ELSE IF ~p.exists THEN Nil
    ELSE validateSessionAgainstPolicy(spec, p)

Allowed == [allowed |-> TRUE, reason |-> ""]
Denied(reason) == [allowed |-> FALSE, reason |-> reason]

validateCreate(ns, spec, p, getFails) ==
    IF validateFrameworkType(spec) # Nil
        THEN Denied("Invalid framework type: " \o validateFrameworkType(spec))
    ELSE IF validateAgainstNamespacePolicy(ns, spec, p, getFails) # Nil
        THEN Denied("Policy violation: "
                    \o validateAgainstNamespacePolicy(ns, spec, p, getFails))
    ELSE Allowed

\* encoding/json writes a map's keys in sorted order: an entry is marshalled to
\* the sequence of its (key, value) pairs in that order.
JsonKeyOrder == <<"data", "event", "timestamp">>

\* a marshalling that leaves out the data of an entry
MarshalWithoutData(entry) == <<<<"event", entry.event>>, <<"timestamp", entry.timestamp>>>>

Marshal(entry) ==
    LET keys == SelectSeq(JsonKeyOrder, LAMBDA k : k \in DOMAIN entry)
    IN  [i \in 1..Len(keys) |-> <<keys[i], entry[keys[i]]>>]

validateHistoryAppendOnly(old, new) ==
    IF ~old.present THEN Nil
    ELSE IF ~old.hasHistory THEN Nil
    ELSE IF ~(new.present /\ new.hasHistory) THEN "history cannot be removed"
    ELSE IF Len(new.history) < Len(old.history) THEN "history cannot be shortened"
    ELSE IF \E i \in 1..Len(old.history) :
                Marshal(old.history[i]) # Marshal(new.history[i])
        THEN "history entry was modified"
    ELSE Nil

validateUpdate(old, new) ==
    IF validateHistoryAppendOnly(old, new) # Nil
        THEN Denied("History modification not allowed: "
                        \o validateHistoryAppendOnly(old, new))
    ELSE Allowed

----------------------------------------------------------------------------
(* The declarative store *)

SessionName(id) == "session-" \o ToString(id)

\* An admitted CREATE stores the Session with no status.
\* a Create that files the Session under the tenant its payload names
StoredSessionInHintedTenant(ns, spec) ==
    [exists |-> TRUE,
     ns |-> IF spec.trigger.payload.tenantHint # "" THEN spec.trigger.payload.tenantHint
            ELSE ns,
     spec |-> spec, status |-> NoStatus, rv |-> 1, age |-> 0]

StoredSession(ns, spec) ==
    [exists |-> TRUE, ns |-> ns, spec |-> spec, status |-> NoStatus, rv |-> 1,
     age |-> 0]

\* Create on the sessions resource: the admission webhook registered for
\* resources=sessions, verbs=create;update reviews the request; a denied or
\* failed request stores nothing.
CreateAdmitted(ns, spec) == validateCreate(ns, spec, policy[ns], FALSE).allowed

\* Status().Update / UpdateStatus: a write of the status subresource.  The store
\* accepts it only if the writer's resourceVersion is the stored one, and the
\* admission webhook above is not registered for sessions/status.
CanUpdateStatus(id, rv) ==
    /\ sessions[id].exists
    /\ sessions[id].rv = rv

\* An Update of the whole object in place of Status().Update: it stores the
\* writer's object, spec included.
StatusUpdatedWithSpec(id, status) ==
    [sessions EXCEPT ![id].spec = EmptySpec, ![id].status = status, ![id].rv = @ + 1]

StatusUpdated(id, status) ==
    [sessions EXCEPT ![id].status = status, ![id].rv = @ + 1]

----------------------------------------------------------------------------
(* WebhookHandler (backend/pkg/handlers, in session_manager.go) *)

keyToNamespace ==
    [k \in {"test-api-key-123", "test-api-key-456", "test-slack-key-789",
            "budget-exceeded-key", "rate-limited-key"} |->
        CASE k = "budget-exceeded-key" -> "team-beta"
          [] k = "rate-limited-key" -> "team-gamma"
          [] OTHER -> "team-alpha"]

\* resolveNamespace: the namespace of an API key, or "" with invalid_api_key.
resolveNamespace(apiKey) ==
    IF apiKey \in DOMAIN keyToNamespace THEN keyToNamespace[apiKey] ELSE ""

validateNamespacePolicy(namespace, source) ==
    IF namespace = "team-beta" THEN "budget_exceeded"
    ELSE IF namespace = "team-gamma" THEN "rate_limit_exceeded"
    ELSE Nil

determineEventType(source, payload) ==
    CASE source = "github" ->
            IF payload.action # "" THEN "pull_request_" \o payload.action ELSE "unknown"
      [] source = "jira" ->
            IF payload.action # "" THEN payload.action ELSE "unknown"
      [] source = "slack" ->
            IF payload.action # "" THEN payload.action ELSE "message"
      [] OTHER -> "unknown"

determineFrameworkType(source, payload) == "claude-code"

WebhookBudget == 10000

createSessionFromWebhook(source, payload) ==
    SessionSpec("typed", determineFrameworkType(source, payload),
                List({"claude-3-sonnet"}), List({"bash", "edit", "read", "write"}),
                WebhookBudget, Trigger(source, determineEventType(source, payload), payload))

Response(apiKey, source, payload, code, error, sessionId, namespace) ==
    [apiKey |-> apiKey, source |-> source, payload |-> payload, code |-> code,
     error |-> error, sessionId |-> sessionId, namespace |-> namespace]

\* handleWebhook up to the Create call: the error response, or a response
\* with no status code to go on.
webhookRejection(apiKey, source, payload) ==
    IF apiKey = ""
        THEN Response(apiKey, source, payload, 400, "missing_api_key", "", "")
    ELSE IF resolveNamespace(apiKey) = ""
        THEN Response(apiKey, source, payload, 401, "invalid_api_key", "", "")
    ELSE IF ~payload.valid
        THEN Response(apiKey, source, payload, 400, "invalid_payload", "", "")
    ELSE IF validateNamespacePolicy(resolveNamespace(apiKey), source) = "budget_exceeded"
        THEN Response(apiKey, source, payload, 403, "policy_violation", "", "")
    ELSE IF validateNamespacePolicy(resolveNamespace(apiKey), source) = "rate_limit_exceeded"
        THEN Response(apiKey, source, payload, 429, "rate_limit_exceeded", "", "")
    ELSE Response(apiKey, source, payload, 0, "", "", "")

\* handleWebhook(c, source) of a handler built with a client, for a request
\* with header X-API-Key = apiKey and the given body.  createFails: the store answers the Create with a transient error.
handleWebhook(apiKey, source, payload, createFails) ==
    /\ Cardinality(responses) < MaxRequests
    /\ LET rej == webhookRejection(apiKey, source, payload)
           ns == resolveNamespace(apiKey)
           spec == createSessionFromWebhook(source, payload)
           id == nextId + 1
       IN  IF rej.code # 0
             THEN /\ createFails = FALSE
                  /\ responses' = responses \cup {rej}
                  /\ UNCHANGED <<authed, workloads, artifacts, resolved, exchanges, sessions, nextId>>
           ELSE IF createFails \/ ~CreateAdmitted(ns, spec)
             THEN /\ responses' = responses \cup
                        {Response(apiKey, source, payload, 500,
                                  "session_creation_failed", "", "")}
                  /\ UNCHANGED <<authed, workloads, artifacts, resolved, exchanges, sessions, nextId>>
           ELSE /\ id \in SessionIds
                /\ sessions' = [sessions EXCEPT ![id] = StoredSession(ns, spec)]
                /\ nextId' = id
                /\ responses' = responses \cup
                        {Response(apiKey, source, payload, 202, "",
                                  SessionName(id), ns)}
    /\ UNCHANGED <<authed, workloads, artifacts, resolved, exchanges, policy, jobs, rec, pol, upd, api, adm>>

----------------------------------------------------------------------------
(* Status writers.  A writer works on the object it read: the store accepts  *)
(* its write only while the stored resourceVersion is the one it read, and   *)
(* every accepted write changes the resourceVersion, so at an accepted write *)
(* the writer's copy is the stored object plus the writer's own changes.     *)
(* The model keeps the resourceVersion of the copy and applies the writer's  *)
(* changes to the stored status.                                             *)

HistoryEntry(event, data) == [timestamp |-> Now, event |-> event, data |-> data]

Condition(type, status, reason) ==
    [type |-> type, status |-> status, lastTransitionTime |-> Now, reason |-> reason]

\* SessionReconciler.getPhase
getPhase(status) ==
    IF ~status.present THEN PhasePending
    ELSE IF status.phase = "" THEN PhasePending
    ELSE status.phase

\* SessionReconciler.updatePhase: the status it sends, from the status it holds.
updatePhase(status, phase, message) ==
    [status EXCEPT
        !.present = TRUE,
        !.phase = phase,
        !.hasHistory = TRUE,
        !.history = Append(@, HistoryEntry("PhaseChanged" \o phase,
                                           [phase |-> phase, message |-> message])),
        !.conditions = Append(@, Condition("Phase" \o phase, "True", phase))]

\* SessionReconciler.updateWorkloadInfo
updateWorkloadInfo(status, jobName) ==
    [status EXCEPT !.present = TRUE, !.jobName = jobName]

\* PolicyReconciler.markSessionViolation for a status whose phase is neither
\* Completed nor Failed.
markSessionViolation(status, violation) ==
    [status EXCEPT
        !.present = TRUE,
        !.phase = PhaseFailed,
        !.violationReason = violation,
        !.hasHistory = TRUE,
        !.history = Append(@, HistoryEntry("PolicyViolation", [reason |-> violation]))]

\* SessionStatusUpdater.addHistoryEvent
addHistoryEvent(status, event, data) ==
    [status EXCEPT !.present = TRUE, !.hasHistory = TRUE,
                   !.history = Append(@, HistoryEntry(event, data))]

\* SessionStatusUpdater.UpdatePhase: the status it sends.
UpdatePhase(status, phase, reason) ==
    addHistoryEvent([status EXCEPT !.present = TRUE, !.phase = phase],
                    "PhaseChanged:" \o phase,
                    [phase |-> phase, reason |-> reason])

\* SessionStatusUpdater.UpdateCondition: the condition of that type is updated
\* in place, or a new one is appended; one history event is added.
UpdateCondition(status, type, condStatus, reason) ==
    LET cs == status.conditions
        at == {i \in 1..Len(cs) : cs[i].type = type}
        first == CHOOSE i \in at : \A j \in at : i <= j
        merged == IF at = {} THEN Append(cs, Condition(type, condStatus, reason))
                  ELSE [cs EXCEPT ![first] = Condition(type, condStatus, reason)]
    IN  addHistoryEvent([status EXCEPT !.present = TRUE, !.conditions = merged],
                        "ConditionChanged:" \o type,
                        [type |-> type, status |-> condStatus, reason |-> reason])

\* SessionManager.UpdateSessionStatus when status.Phase is the stored phase and
\* Result, Error and Workload are nil: the status map it sets holds phase and
\* message only, and replaces the stored status.
UpdateSessionStatus(phase, message) ==
    [NoStatus EXCEPT !.present = TRUE, !.phase = phase, !.message = message]

----------------------------------------------------------------------------
(* SessionReconciler (operator/internal/controllers, in workload_creator.go) *)

\* validateModels and validateTools are the same code over the two sections.
reconcilerValidateList(requested, section, what) ==
    IF ~requested.has THEN Nil
    ELSE IF section.has /\ section.allowed.has
            /\ \E r \in requested.items : r \notin section.allowed.items
        THEN what \o " is not allowed by namespace policy"
    ELSE Nil

validateBudget(spec, p) == Nil

validateModels(spec, p) == reconcilerValidateList(spec.models, p.models, "model")

validateTools(spec, p) == reconcilerValidateList(spec.tools, p.tools, "tool")

\* SessionReconciler.validatePolicy; getFails: the policy Get fails with an
\* error other than NotFound.
validatePolicy(spec, p, getFails) ==
    IF getFails THEN "failed to get namespace policy"
    ELSE IF ~p.exists THEN Nil
    ELSE IF validateBudget(spec, p) # Nil THEN validateBudget(spec, p)
    ELSE IF validateModels(spec, p) # Nil THEN validateModels(spec, p)
    ELSE validateTools(spec, p)

JobName(id) == SessionName(id) \o "-runner"

NoJob == [exists |-> FALSE, owner |-> 0, state |-> "none"]

\* buildJob with the controller reference set; state "none" is a Job whose
\* status is still empty.
buildJob(id) == [exists |-> TRUE, owner |-> id, state |-> "none"]

\* checkWorkloadStatus on the Job it fetched
workloadStatus(job) ==
    CASE job.state = "none" -> "Running"
      [] job.state = "succeeded" -> "Completed"
      [] job.state = "failed" -> "Failed"
      [] job.state = "active" -> "Running"
      [] OTHER -> "Unknown"

RecIdle ==
    [pc |-> "idle", id |-> 0, rv |-> 0, jobName |-> "", phase |-> "",
     message |-> ""]

RecAt(pc, id, rv, jobName, phase, message) ==
    [pc |-> pc, id |-> id, rv |-> rv, jobName |-> jobName, phase |-> phase,
     message |-> message]

\* Reconcile: Get the Session and switch on its phase.
Reconcile(id) ==
    /\ rec.pc = "idle"
    /\ sessions[id].exists
    /\ LET st == sessions[id].status
           rv == sessions[id].rv
           phase == getPhase(st)
       IN  rec' = CASE phase = PhasePending ->
                        RecAt("validatePolicy", id, rv, st.jobName, "", "")
                   [] phase = PhaseRunning ->
                        RecAt("checkWorkloadStatus", id, rv, st.jobName, "", "")
                   [] phase \in {PhaseCompleted, PhaseFailed} ->
                        RecIdle
                   [] OTHER ->
                        RecAt("updatePhase", id, rv, st.jobName, PhasePending,
                              "Unknown phase detected, resetting to Pending")
    /\ UNCHANGED <<authed, workloads, artifacts, resolved, exchanges, sessions, policy, jobs, nextId, pol, upd, api, responses, adm>>

\* handlePending, step 1
RecValidatePolicy(getFails) ==
    /\ rec.pc = "validatePolicy"
    /\ LET s == sessions[rec.id]
           err == validatePolicy(s.spec, policy[s.ns], getFails)
       IN  rec' = IF err # Nil
                    THEN [rec EXCEPT !.pc = "updatePhase", !.phase = PhaseFailed,
                                     !.message = "Policy validation failed: " \o err]
                    ELSE [rec EXCEPT !.pc = "createWorkload"]
    /\ UNCHANGED <<authed, workloads, artifacts, resolved, exchanges, sessions, policy, jobs, nextId, pol, upd, api, responses, adm>>

\* handlePending, step 2: createWorkload up to the Create of the Job
RecCreateWorkload(createFails) ==
    /\ rec.pc = "createWorkload"
    /\ IF createFails
         THEN /\ rec' = [rec EXCEPT !.pc = "updatePhase", !.phase = PhaseFailed,
                                    !.message = "Workload creation failed"]
              /\ UNCHANGED jobs
         ELSE /\ rec' = [rec EXCEPT !.pc = "updateWorkloadInfo"]
              /\ jobs' = IF jobs[rec.id].exists THEN jobs
                         ELSE [jobs EXCEPT ![rec.id] = buildJob(rec.id)]
    /\ UNCHANGED <<authed, workloads, artifacts, resolved, exchanges, sessions, policy, nextId, pol, upd, api, responses, adm>>

\* createWorkload's updateWorkloadInfo: a status write whose error is dropped
RecUpdateWorkloadInfoWithin(writeFails, maxVersion) ==
    /\ rec.pc = "updateWorkloadInfo"
    /\ IF ~writeFails /\ CanUpdateStatus(rec.id, rec.rv)
         THEN /\ rec.rv < maxVersion
              /\ sessions' = StatusUpdated(rec.id,
                    updateWorkloadInfo(sessions[rec.id].status, JobName(rec.id)))
              /\ rec' = [rec EXCEPT !.pc = "updatePhase", !.rv = @ + 1,
                                    !.jobName = JobName(rec.id),
                                    !.phase = PhaseRunning,
                                    !.message = "Workload created successfully"]
         ELSE /\ rec' = [rec EXCEPT !.pc = "updatePhase",
                                    !.jobName = JobName(rec.id),
                                    !.phase = PhaseRunning,
                                    !.message = "Workload created successfully"]
              /\ UNCHANGED sessions
    /\ UNCHANGED <<authed, workloads, artifacts, resolved, exchanges, policy, jobs, nextId, pol, upd, api, responses, adm>>

RecUpdateWorkloadInfo(writeFails) == RecUpdateWorkloadInfoWithin(writeFails, MaxVersion)

\* updatePhase: one status write carrying phase, history entry and condition
\* (and the workload info the reconciler set on its copy)
RecUpdatePhaseWithin(writeFails, maxVersion, maxHistory) ==
    /\ rec.pc = "updatePhase"
    /\ IF ~writeFails /\ CanUpdateStatus(rec.id, rec.rv)
         THEN /\ rec.rv < maxVersion
              /\ Len(sessions[rec.id].status.history) < maxHistory
              /\ sessions' = StatusUpdated(rec.id,
                    updatePhase([sessions[rec.id].status EXCEPT !.jobName = rec.jobName],
                                rec.phase, rec.message))
              /\ rec' = RecIdle
         ELSE /\ rec' = RecIdle
              /\ UNCHANGED sessions
    /\ UNCHANGED <<authed, workloads, artifacts, resolved, exchanges, policy, jobs, nextId, pol, upd, api, responses, adm>>

RecUpdatePhase(writeFails) == RecUpdatePhaseWithin(writeFails, MaxVersion, MaxHistory)

\* handleRunning: checkWorkloadStatus and the switch on its answer
RecCheckWorkloadStatus(getFails) ==
    /\ rec.pc = "checkWorkloadStatus"
    /\ LET job == jobs[rec.id]
           failed == rec.jobName = "" \/ getFails \/ ~job.exists
           ws == IF failed THEN "" ELSE workloadStatus(job)
       IN  rec' = CASE ws = "Completed" ->
                        [rec EXCEPT !.pc = "updatePhase", !.phase = PhaseCompleted,
                                    !.message = "Session completed successfully"]
                   [] ws = "Failed" ->
                        [rec EXCEPT !.pc = "updatePhase", !.phase = PhaseFailed,
                                    !.message = "Workload execution failed"]
                   [] OTHER -> RecIdle
    /\ UNCHANGED <<authed, workloads, artifacts, resolved, exchanges, sessions, policy, jobs, nextId, pol, upd, api, responses, adm>>

\* The orchestrator runs the Job: its status goes from empty to active, and
\* from active to succeeded or failed.
JobProgress(id, state) ==
    /\ jobs[id].exists
    /\ \/ jobs[id].state = "none" /\ state = "active"
       \/ jobs[id].state = "active" /\ state \in {"succeeded", "failed"}
    /\ jobs' = [jobs EXCEPT ![id].state = state]
    /\ UNCHANGED <<authed, workloads, artifacts, resolved, exchanges, sessions, policy, nextId, rec, pol, upd, api, responses, adm>>

----------------------------------------------------------------------------
(* PolicyReconciler (operator/internal/controllers/policy_controller.go)    *)

\* validateModelsConfig / validateToolsConfig: a name in both lists
validateListConfig(section, what) ==
    IF section.has /\ section.allowed.items \cap section.blocked.items # {}
        THEN what \o " cannot be both allowed and blocked"
    ELSE Nil

validatePolicyConfig(p) ==
    IF validateListConfig(p.models, "model") # Nil
        THEN "invalid models configuration: " \o validateListConfig(p.models, "model")
    ELSE IF validateListConfig(p.tools, "tool") # Nil
        THEN "invalid tools configuration: " \o validateListConfig(p.tools, "tool")
    ELSE Nil

\* checkModelAllowed and checkToolsAllowed are the same code over the two
\* sections.  Where one requested name is blocked and another is missing
\* from the allowed list, the code reports the first in list order; the
\* model reports the blocked one.
checkListAllowed(requested, section, what) ==
    IF ~section.has THEN Nil
    ELSE IF \E r \in requested : r \in section.blocked.items
        THEN what \o " is blocked by policy"
    ELSE IF section.allowed.items # {}
            /\ \E r \in requested : r \notin section.allowed.items
        THEN what \o " is not in allowed list"
    ELSE Nil

checkModelAllowed(requested, p) == checkListAllowed(requested, p.models, "model")

checkToolsAllowed(requested, p) == checkListAllowed(requested, p.tools, "tool")

checkSessionViolation(spec, p) ==
    IF spec.models.has /\ checkModelAllowed(spec.models.items, p) # Nil
        THEN checkModelAllowed(spec.models.items, p)
    ELSE IF spec.tools.has THEN checkToolsAllowed(spec.tools.items, p)
    ELSE Nil

PolIdle == [pc |-> "idle", todo |-> <<>>]

SessionIdSeq == [i \in 1..MaxSessions |-> i]

\* The sessions of the List snapshot that checkPolicyViolations will write
\* to: those violating the policy whose phase markSessionViolation does not
\* take for terminal.
violators(ns) ==
    LET hit(i) == /\ sessions[i].exists
                  /\ sessions[i].ns = ns
                  /\ checkSessionViolation(sessions[i].spec, policy[ns]) # Nil
                  /\ sessions[i].status.phase \notin {PhaseCompleted, PhaseFailed}
        ids == SelectSeq(SessionIdSeq, hit)
    IN  [k \in 1..Len(ids) |->
            [id |-> ids[k], rv |-> sessions[ids[k]].rv,
             violation |-> checkSessionViolation(sessions[ids[k]].spec, policy[ns])]]

\* PolicyReconciler.updateUsageMetrics: the status.usage.sessions it computes
\* from the Sessions listed in the policy's namespace.
updateUsageMetrics(ns) ==
    LET listed == {i \in SessionIds : sessions[i].exists /\ sessions[i].ns = ns}
        active == {i \in listed :
                      sessions[i].status.phase \in {PhaseRunning, PhasePending}}
    IN  Usage(Cardinality(active), Cardinality(listed))

\* an entry of the policy's status.conditions
PolicyCondition(type, status, reason) == [type |-> type, status |-> status, reason |-> reason]

\* the Sessions checkPolicyViolations counts: every listed Session that
\* violates the policy, whatever its phase
violationCount(ns) ==
    Cardinality({i \in SessionIds :
                    /\ sessions[i].exists
                    /\ sessions[i].ns = ns
                    /\ checkSessionViolation(sessions[i].spec, policy[ns]) # Nil})

\* updatePolicyCondition and updatePolicyStatus: what Reconcile appends to
\* status.conditions, each with an append and no look at what is there
conditionsAppended(ns) ==
    LET cs == policy[ns].conditions
    IN  IF validatePolicyConfig(policy[ns]) # Nil
          THEN Append(cs, PolicyCondition("ConfigValid", "false", "Invalid"))
        ELSE IF violationCount(ns) > 0
          THEN cs \o <<PolicyCondition("PolicyViolation", "True", ""),
                       PolicyCondition("ConfigValid", "true", "Valid")>>
        ELSE Append(cs, PolicyCondition("ConfigValid", "true", "Valid"))

\* PolicyReconciler.Reconcile: its writes to the policy's status, and the
\* List of checkPolicyViolations, whose Sessions the steps after it mark.
\* The usage is stored by the write of updateUsageMetrics or, that failing
\* (Reconcile logs it and goes on), by the later write of the same object;
\* the conditions are stored unless the status write fails.  The writes to
\* the policy are taken in one step with the List, ahead of the writes to
\* the Sessions.  scheduleRetentionCleanup parses spec.retention and writes
\* a log line: it changes nothing.  keepConditions says whether
\* status.conditions is part of the state; where it is, the reconcile
\* stops at maxConditions entries.
PolicyReconcileKeeping(ns, keepConditions, maxConditions) ==
    /\ pol.pc = "idle"
    /\ policy[ns].exists
    /\ keepConditions => Len(conditionsAppended(ns)) <= maxConditions
    /\ \E usageFails \in BOOLEAN, statusFails \in BOOLEAN :
          LET p == policy[ns]
              invalid == validatePolicyConfig(p) # Nil
              conds == IF keepConditions /\ ~statusFails THEN conditionsAppended(ns)
                       ELSE p.conditions
              stored == IF invalid THEN [p EXCEPT !.conditions = conds]
                        ELSE IF usageFails /\ statusFails THEN p
                        ELSE [p EXCEPT !.usage = updateUsageMetrics(ns),
                                       !.conditions = conds]
          IN  policy' = [policy EXCEPT ![ns] = stored]
    /\ pol' = IF validatePolicyConfig(policy[ns]) # Nil \/ violators(ns) = <<>>
                THEN PolIdle
                ELSE [pc |-> "mark", todo |-> violators(ns)]
    /\ UNCHANGED <<authed, workloads, artifacts, resolved, exchanges, sessions, jobs, nextId, rec, upd, api, responses, adm>>

\* Reconcile with status.conditions left out of the state
PolicyReconcile(ns) == PolicyReconcileKeeping(ns, FALSE, 0)

\* One iteration of the loop in checkPolicyViolations: markSessionViolation
\* on the next listed session; its error is dropped.
PolMarkSessionViolation(writeFails) ==
    /\ pol.pc = "mark"
    /\ LET t == Head(pol.todo)
           rest == Tail(pol.todo)
       IN  /\ IF ~writeFails /\ CanUpdateStatus(t.id, t.rv)
                THEN /\ t.rv < MaxVersion
                     /\ Len(sessions[t.id].status.history) < MaxHistory
                     /\ sessions' = StatusUpdated(t.id,
                            markSessionViolation(sessions[t.id].status, t.violation))
                ELSE UNCHANGED sessions
           /\ pol' = IF rest = <<>> THEN PolIdle ELSE [pol EXCEPT !.todo = rest]
    /\ UNCHANGED <<authed, workloads, artifacts, resolved, exchanges, policy, jobs, nextId, rec, upd, api, responses, adm>>

\* An administrator applies a NamespacePolicy.
PolicyApply(ns, p) ==
    LET applied == IF p.exists
                     THEN [p EXCEPT !.usage = policy[ns].usage,
                                    !.conditions = policy[ns].conditions]
                     ELSE p
    IN  /\ policy[ns] # applied
        /\ policy' = [policy EXCEPT ![ns] = applied]
    /\ UNCHANGED <<authed, workloads, artifacts, resolved, exchanges, sessions, jobs, nextId, rec, pol, upd, api, responses, adm>>

----------------------------------------------------------------------------
(* SessionStatusUpdater (package status)                                    *)

CondStep(type, status, reason) ==
    [kind |-> "condition", type |-> type, status |-> status, phase |-> "",
     reason |-> reason]

PhaseStep(phase, reason) ==
    [kind |-> "phase", type |-> "", status |-> "", phase |-> phase,
     reason |-> reason]

\* The status writes each exported method makes, in order.
TransitionToRunning ==
    << CondStep("PolicyValidated", "True", "PolicyValidated"),
       CondStep("WorkloadCreated", "True", "WorkloadCreated"),
       PhaseStep(PhaseRunning, "WorkloadStarted") >>

TransitionToCompleted ==
    << CondStep("ArtifactsStored", "True", "ArtifactsStored"),
       PhaseStep(PhaseCompleted, "SessionCompleted") >>

TransitionToFailed(reason) ==
    << CondStep(IF reason = "PolicyViolation" THEN "PolicyValidated"
                                              ELSE "WorkloadRunning",
                "False", reason),
       PhaseStep(PhaseFailed, reason) >>

UpdIdle == [pc |-> "idle", id |-> 0, rv |-> 0, todo |-> <<>>, commits |-> 0]

applyStep(status, step) ==
    IF step.kind = "phase" THEN UpdatePhase(status, step.phase, step.reason)
    ELSE UpdateCondition(status, step.type, step.status, step.reason)

\* A caller that holds the Session it read calls one exported method.
UpdCall(id, steps) ==
    /\ upd.pc = "idle"
    /\ sessions[id].exists
    /\ upd' = [pc |-> "run", id |-> id, rv |-> sessions[id].rv, todo |-> steps,
               commits |-> 0]
    /\ UNCHANGED <<authed, workloads, artifacts, resolved, exchanges, sessions, policy, jobs, nextId, rec, pol, api, responses, adm>>

\* The next Status().Update of the method in progress; an error returns
\* from the method with the earlier writes in place.
UpdWriteWithin(writeFails, maxVersion, maxHistory) ==
    /\ upd.pc = "run"
    /\ IF ~writeFails /\ CanUpdateStatus(upd.id, upd.rv)
         THEN /\ upd.rv < maxVersion
              /\ Len(sessions[upd.id].status.history) < maxHistory
              /\ sessions' = StatusUpdated(upd.id,
                                applyStep(sessions[upd.id].status, Head(upd.todo)))
              /\ upd' = IF Tail(upd.todo) = <<>> THEN UpdIdle
                        ELSE [upd EXCEPT !.rv = @ + 1, !.todo = Tail(@),
                                         !.commits = @ + 1]
         ELSE /\ upd' = UpdIdle
              /\ UNCHANGED sessions
    /\ UNCHANGED <<authed, workloads, artifacts, resolved, exchanges, policy, jobs, nextId, rec, pol, api, responses, adm>>

UpdWrite(writeFails) == UpdWriteWithin(writeFails, MaxVersion, MaxHistory)

----------------------------------------------------------------------------
(* SessionManager.UpdateSessionStatus (backend)                             *)

ApiIdle == [pc |-> "idle", id |-> 0, rv |-> 0, phase |-> "", message |-> ""]

\* Get, build the status map, and compare the phases.  When they differ the
\* map gets a []StatusTransition, which SetNestedMap cannot deep-copy: the
\* call panics before the write.
ApiUpdateSessionStatus(id, phase, message) ==
    /\ api.pc = "idle"
    /\ sessions[id].exists
    /\ api' = IF sessions[id].status.phase # phase THEN ApiIdle
                ELSE [pc |-> "update", id |-> id, rv |-> sessions[id].rv,
                      phase |-> phase, message |-> message]
    /\ UNCHANGED <<authed, workloads, artifacts, resolved, exchanges, sessions, policy, jobs, nextId, rec, pol, upd, responses, adm>>

\* UpdateStatus with the object read by Get
ApiUpdateStatus(writeFails) ==
    /\ api.pc = "update"
    /\ IF ~writeFails /\ CanUpdateStatus(api.id, api.rv)
         THEN /\ api.rv < MaxVersion
              /\ sessions' = StatusUpdated(api.id,
                                UpdateSessionStatus(api.phase, api.message))
         ELSE UNCHANGED sessions
    /\ api' = ApiIdle
    /\ UNCHANGED <<authed, workloads, artifacts, resolved, exchanges, policy, jobs, nextId, rec, pol, upd, responses, adm>>

----------------------------------------------------------------------------
(* Admission of Session writes: the API server calls SessionValidator.Handle *)
(* and persists the object only when the response allows it.                 *)

AdmIdle ==
    [op |-> "", ns |-> "", spec |-> EmptySpec, oldSpec |-> EmptySpec,
     old |-> NoStatus, new |-> NoStatus,
     getFails |-> FALSE, allowed |-> FALSE, reason |-> ""]

\* Handle, CREATE branch
HandleCreate(ns, spec, getFails) ==
    /\ adm.op = ""
    /\ LET resp == validateCreate(ns, spec, policy[ns], getFails)
       IN  /\ adm' = [AdmIdle EXCEPT !.op = "CREATE", !.ns = ns, !.spec = spec,
                                     !.getFails = getFails,
                                     !.allowed = resp.allowed, !.reason = resp.reason]
           /\ IF resp.allowed
                THEN /\ sessions' = [sessions EXCEPT ![1] = StoredSession(ns, spec)]
                     /\ nextId' = 1
                ELSE UNCHANGED <<authed, workloads, artifacts, resolved, exchanges, sessions, nextId>>
    /\ UNCHANGED <<authed, workloads, artifacts, resolved, exchanges, policy, jobs, rec, pol, upd, api, responses>>

\* Handle, UPDATE branch: the request carries the stored object as oldObject
\* and the object to store, with spec newSpec and status new.
HandleUpdate(newSpec, new) ==
    /\ adm.op = ""
    /\ sessions[1].exists
    /\ LET old == sessions[1].status
           resp == validateUpdate(old, new)
       IN  /\ adm' = [AdmIdle EXCEPT !.op = "UPDATE", !.ns = sessions[1].ns,
                                     !.spec = newSpec,
                                     !.oldSpec = sessions[1].spec,
                                     !.old = old, !.new = new,
                                     !.allowed = resp.allowed, !.reason = resp.reason]
           /\ sessions' = IF resp.allowed
                            THEN [sessions EXCEPT ![1].spec = newSpec,
                                                  ![1].status = new,
                                                  ![1].rv = @ + 1]
                            ELSE sessions
    /\ UNCHANGED <<authed, workloads, artifacts, resolved, exchanges, policy, jobs, nextId, rec, pol, upd, api, responses>>

----------------------------------------------------------------------------
(* Input domains                                                            *)

ApiKeys ==
    {"", "no-such-key", "test-api-key-123", "test-api-key-456",
     "test-slack-key-789", "budget-exceeded-key", "rate-limited-key"}

Sources == {"github", "slack"}

Payloads ==
    {Payload(v, a, t) : v \in BOOLEAN, a \in {"", "opened"},
                        t \in {"", "team-beta"}}

\* Inputs of the admission reviews
CreateNamespaces == {"team-alpha", "team-beta"}

ModelSections ==
    {NoSection} \cup
    {PolicySection(TRUE, a, b) :
        a \in {NoList, List({}), List({"claude-3-sonnet"}), List(Models)},
        b \in {NoList, List({}), List({"claude-3-opus"}), List({"claude-3-sonnet"})}}

ToolSections ==
    {NoSection} \cup
    {PolicySection(TRUE, a, b) :
        a \in {NoList, List({}), List({"bash"})},
        b \in {NoList, List({}), List({"edit"})}}

FrameworkSections ==
    {NoSection, PolicySection(TRUE, List({"claude-code"}), NoList),
     PolicySection(TRUE, NoList, List({"claude-code"}))}

\* monthly budget and the usage already recorded, in cents; 0: no budget
PolicyBudgets == {<<0, 0>>, <<10000, 2500>>}

CreatePolicies ==
    {NamespacePolicy(m, t, f, b[1], b[2]) :
        m \in ModelSections, t \in ToolSections, f \in FrameworkSections,
        b \in PolicyBudgets}

SpecBudgets == {0, 7500, 7501}

CreateSpecs ==
    {SessionSpec(sh, "", NoList, NoList, 0, ManualTrigger) :
        sh \in {"nospec", "noframework", "notype"}} \cup
    {SessionSpec("typed", ty, m, t, b, ManualTrigger) :
        ty \in availableFrameworks \cup {"generic", ""},
        m \in {NoList, List({})} \cup {List({x}) : x \in Models},
        t \in {NoList, List({"bash"}), List({"bash", "edit"})},
        b \in SpecBudgets}

SeqsUpTo(S, n) == UNION {[1..k -> S] : k \in 0..n}

AdmEntries ==
    {HistoryEntry("PhaseChanged:Pending", [phase |-> PhasePending]),
     HistoryEntry("PhaseChanged:Pending", [phase |-> PhaseRunning]),
     [timestamp |-> Now, event |-> "PhaseChanged:Pending"]}

AdmPhases == {PhasePending, PhaseRunning, PhaseCompleted, PhaseStopped}

AdmStatuses(n) ==
    {NoStatus} \cup
    {[NoStatus EXCEPT !.present = TRUE, !.phase = ph] : ph \in AdmPhases} \cup
    {[NoStatus EXCEPT !.present = TRUE, !.phase = ph,
                      !.hasHistory = TRUE, !.history = h] :
        ph \in AdmPhases, h \in SeqsUpTo(AdmEntries, n)}

\* the stored Session of the UPDATE reviews, and the specs offered for it:
\* itself, another framework type, another trigger, another tool list
UpdateOldSpec ==
    SessionSpec("typed", "claude-code", List({"claude-3-sonnet"}), List({"bash"}),
                0, ManualTrigger)

UpdateSpecs ==
    {UpdateOldSpec,
     [UpdateOldSpec EXCEPT !.type = "custom-python"],
     [UpdateOldSpec EXCEPT !.trigger = Trigger("github", "unknown", NoPayload)],
     [UpdateOldSpec EXCEPT !.tools = List({"bash", "edit"})]}

LifeSessions == 1

LifePayload == Payload(TRUE, "opened", "")

\* a policy that admits nothing the webhook's sessions request
LifePolicies ==
    {NamespacePolicy(PolicySection(TRUE, List({"claude-3-opus"}), NoList),
                     NoSection, NoSection, 0, 0)}

UpdCalls ==
    {TransitionToRunning, TransitionToCompleted,
     TransitionToFailed("WorkloadFailed"), <<PhaseStep(PhaseStopped, "Stop")>>}

ApiPhases == {PhaseRunning, PhaseFailed}

\* the API keys webhook senders present
SenderKeys == {"team-beta-key-01", "team-gamma-key-1"}

NoneResolved == [k \in SenderKeys |-> {}]

\* WorkloadCreator has created no Job and has answered no call
NoWorkloads == [i \in SessionIds |-> [job |-> NoJob, called |-> FALSE, err |-> Nil]]

\* empty index ConfigMaps, an empty storage backend, nothing listed and
\* nothing cleaned up yet
NoArtifacts ==
    [index |-> {}, storage |-> {}, listedFor |-> "", listed |-> {}, cleaned |-> ""]

\* WebhookAuthConfig: the three secrets, and APIKeys as the set of its
\* (source, key) entries
WebhookAuthConfig(github, jira, slack, apiKeys) ==
    [GitHubSecret |-> github, JiraSecret |-> jira, SlackSecret |-> slack,
     APIKeys |-> apiKeys]

\* a signature header: the prefix it carries and the MAC after it; both
\* empty when the header is not sent
Signature(prefix, mac) == [prefix |-> prefix, mac |-> mac]

NoSignature == Signature("", "")

\* a webhook request as the middleware reads it: the :source parameter, the
\* signature header (X-Hub-Signature-256, X-Hub-Signature or
\* X-Slack-Signature), X-Slack-Request-Timestamp,
\* X-Atlassian-Webhook-Identifier, X-API-Key, and the body
WebhookRequest(source, signature, timestamp, identifier, apiKey, body) ==
    [source |-> source, signature |-> signature, timestamp |-> timestamp,
     identifier |-> identifier, apiKey |-> apiKey, body |-> body]

NoRequest == WebhookRequest("", NoSignature, "", "", "", "")

\* the middleware with every secret set, before its first request
NoAuth ==
    [config |-> WebhookAuthConfig("gh-secret", "jira-secret", "slack-secret", {}),
     req |-> NoRequest, status |-> 0, passed |-> FALSE]

----------------------------------------------------------------------------
(* Specifications                                                           *)

Init ==
    /\ sessions = [i \in SessionIds |-> NoSession]
    /\ policy = [ns \in Namespaces |-> NoPolicy]
    /\ jobs = [i \in SessionIds |-> NoJob]
    /\ nextId = 0
    /\ rec = RecIdle
    /\ pol = PolIdle
    /\ upd = UpdIdle
    /\ api = ApiIdle
    /\ responses = {}
    /\ adm = AdmIdle
    /\ exchanges = {}
    /\ resolved = NoneResolved
    /\ workloads = NoWorkloads
    /\ artifacts = NoArtifacts
    /\ authed = NoAuth

\* The session lifecycle: one webhook-created Session and every writer of
\* its status.
Next ==
    \/ /\ nextId < LifeSessions
       /\ handleWebhook("test-api-key-123", "github", LifePayload, FALSE)
    \/ \E p \in LifePolicies : PolicyApply("team-alpha", p)
    \/ \E id \in SessionIds : Reconcile(id)
    \/ \E f \in BOOLEAN : RecValidatePolicy(f)
    \/ \E f \in BOOLEAN : RecCreateWorkload(f)
    \/ \E f \in BOOLEAN : RecUpdateWorkloadInfo(f)
    \/ \E f \in BOOLEAN : RecUpdatePhase(f)
    \/ \E f \in BOOLEAN : RecCheckWorkloadStatus(f)
    \/ \E id \in SessionIds, st \in {"active", "succeeded", "failed"} :
            JobProgress(id, st)
    \/ PolicyReconcile("team-alpha")
    \/ \E f \in BOOLEAN : PolMarkSessionViolation(f)
    \/ \E id \in SessionIds, steps \in UpdCalls : UpdCall(id, steps)
    \/ \E f \in BOOLEAN : UpdWrite(f)
    \/ \E id \in SessionIds, ph \in ApiPhases :
            ApiUpdateSessionStatus(id, ph, "update")
    \/ \E f \in BOOLEAN : ApiUpdateStatus(f)

Spec == Init /\ [][Next]_vars

\* The webhook endpoint alone, over every credential, source and payload.
NextHook ==
    \E k \in ApiKeys, src \in Sources, pl \in Payloads, f \in BOOLEAN :
        handleWebhook(k, src, pl, f)

SpecHook == Init /\ [][NextHook]_vars

\* CREATE reviews: one request against each policy of the namespace.
InitCreate ==
    /\ sessions = [i \in SessionIds |-> NoSession]
    /\ \E p \in CreatePolicies :
            policy = [ns \in Namespaces |-> IF ns = "team-alpha" THEN p ELSE NoPolicy]
    /\ jobs = [i \in SessionIds |-> NoJob]
    /\ nextId = 0
    /\ rec = RecIdle
    /\ pol = PolIdle
    /\ upd = UpdIdle
    /\ api = ApiIdle
    /\ responses = {}
    /\ adm = AdmIdle
    /\ exchanges = {}
    /\ resolved = NoneResolved
    /\ workloads = NoWorkloads
    /\ artifacts = NoArtifacts
    /\ authed = NoAuth

NextCreate ==
    \E ns \in CreateNamespaces, spec \in CreateSpecs, f \in BOOLEAN :
        HandleCreate(ns, spec, f)

SpecCreate == InitCreate /\ [][NextCreate]_vars

\* UPDATE reviews: one request against each stored status.
InitUpdate ==
    /\ \E old \in AdmStatuses(MaxAdmHistory) :
            sessions = [i \in SessionIds |->
                          IF i = 1
                            THEN [StoredSession("team-alpha", UpdateOldSpec)
                                    EXCEPT !.status = old]
                            ELSE NoSession]
    /\ policy = [ns \in Namespaces |-> NoPolicy]
    /\ jobs = [i \in SessionIds |-> NoJob]
    /\ nextId = 1
    /\ rec = RecIdle
    /\ pol = PolIdle
    /\ upd = UpdIdle
    /\ api = ApiIdle
    /\ responses = {}
    /\ adm = AdmIdle
    /\ exchanges = {}
    /\ resolved = NoneResolved
    /\ workloads = NoWorkloads
    /\ artifacts = NoArtifacts
    /\ authed = NoAuth

NextUpdate ==
    \E newSpec \in UpdateSpecs, new \in AdmStatuses(MaxAdmHistory + 1) :
        HandleUpdate(newSpec, new)

SpecUpdate == InitUpdate /\ [][NextUpdate]_vars

----------------------------------------------------------------------------
(* Properties                                                               *)

IsPrefix(a, b) == Len(a) <= Len(b) /\ SubSeq(b, 1, Len(a)) = a

\* C1: every committed status write, by any component, leaves the history it
\* found as a prefix of the history it stores.
C1_HistoryPrefixPreserved ==
    [][\A i \in SessionIds :
          sessions[i].exists =>
              IsPrefix(sessions[i].status.history, sessions'[i].status.history)]_vars

\* C2: an UPDATE against a stored history is admitted only if the new history
\* is at least as long and holds every old entry unchanged at its index; a
\* history shorter by one entry, or absent, is denied.
C2_HistoryAppendOnlyAdmission ==
    (adm.op = "UPDATE" /\ adm.old.present /\ adm.old.hasHistory) =>
        /\ adm.allowed =>
              /\ adm.new.present /\ adm.new.hasHistory
              /\ Len(adm.new.history) >= Len(adm.old.history)
              /\ \A i \in 1..Len(adm.old.history) :
                    adm.new.history[i] = adm.old.history[i]
        /\ ( \/ ~(adm.new.present /\ adm.new.hasHistory)
             \/ Len(adm.new.history) + 1 = Len(adm.old.history) ) => ~adm.allowed
        /\ ~adm.allowed => sessions[1].status = adm.old

\* an UPDATE that drops the last of two entries and is denied
C2_Witness ==
    /\ adm.op = "UPDATE"
    /\ Len(adm.old.history) = 2
    /\ adm.new.hasHistory
    /\ adm.new.history = SubSeq(adm.old.history, 1, 1)
    /\ ~adm.allowed
    /\ sessions[1].status.history = adm.old.history

PhaseEdges ==
    {<<PhasePending, PhaseRunning>>, <<PhasePending, PhaseFailed>>,
     <<PhaseRunning, PhaseCompleted>>, <<PhaseRunning, PhaseFailed>>,
     <<PhaseRunning, PhaseTimedOut>>, <<PhaseRunning, PhaseStopped>>}

\* C3: every committed change of a Session's phase is one of the six edges,
\* so a terminal phase never changes (a Session without a phase counts as
\* Pending).
C3_PhaseChangesFollowEdges ==
    [][\A i \in SessionIds :
          (sessions[i].exists
             /\ getPhase(sessions'[i].status) # getPhase(sessions[i].status)) =>
              <<getPhase(sessions[i].status), getPhase(sessions'[i].status)>>
                  \in PhaseEdges]_vars

\* C4: no step of SessionReconciler.Reconcile on a Session whose phase is
\* terminal changes its phase, conditions or history.
C4_ReconcileLeavesTerminalAlone ==
    [][\A i \in SessionIds :
          (rec' # rec /\ rec.id = i /\ sessions[i].status.phase \in TerminalPhases) =>
              /\ sessions'[i].status.phase = sessions[i].status.phase
              /\ sessions'[i].status.conditions = sessions[i].status.conditions
              /\ sessions'[i].status.history = sessions[i].status.history]_vars

\* C5: every committed change of status.phase to a phase p appends exactly one
\* history entry, whose event is "PhaseChanged:" followed by p.
C5_PhaseChangeAppendsOneEvent ==
    [][\A i \in SessionIds :
          (sessions[i].exists
             /\ sessions'[i].status.phase # sessions[i].status.phase) =>
              /\ Len(sessions'[i].status.history) = Len(sessions[i].status.history) + 1
              /\ IsPrefix(sessions[i].status.history, sessions'[i].status.history)
              /\ sessions'[i].status.history[Len(sessions'[i].status.history)].event
                    = "PhaseChanged:" \o sessions'[i].status.phase]_vars

\* C6: a transition is one store write: a write that changes the conditions
\* is the write that changes the phase, and the write that changes the phase
\* is the one that appends to the history.
C6_TransitionIsOneWrite ==
    [][\A i \in SessionIds :
          sessions[i].exists =>
              /\ sessions'[i].status.conditions # sessions[i].status.conditions
                    => sessions'[i].status.phase # sessions[i].status.phase
              /\ sessions'[i].status.phase # sessions[i].status.phase
                    => Len(sessions'[i].status.history)
                          > Len(sessions[i].status.history)]_vars

accepted == {r \in responses : r.code = 202}

sessionOf(r) == CHOOSE i \in SessionIds : SessionName(i) = r.sessionId

\* C7: the Session created for an accepted webhook request lives in the tenant
\* bound to the request's credential, so two requests with the same credential
\* create their Sessions in the same tenant whatever their bodies hold.
C7_TenantFromCredentialOnly ==
    /\ \A r \in accepted :
          /\ sessions[sessionOf(r)].exists
          /\ sessions[sessionOf(r)].ns = keyToNamespace[r.apiKey]
          /\ r.namespace = keyToNamespace[r.apiKey]
    /\ \A r1, r2 \in accepted :
          r1.apiKey = r2.apiKey =>
              sessions[sessionOf(r1)].ns = sessions[sessionOf(r2)].ns

\* two accepted requests with one credential, one of them naming another tenant
C7_Witness ==
    \E r1, r2 \in accepted :
        /\ r1.apiKey = r2.apiKey
        /\ r1.sessionId # r2.sessionId
        /\ r1.payload.tenantHint = ""
        /\ r2.payload.tenantHint \in Namespaces \ {keyToNamespace[r2.apiKey]}
        /\ sessions[sessionOf(r1)].exists /\ sessions[sessionOf(r2)].exists

\* what the policy section restricts, as the contract states it
restricted(requested, section) ==
    \E r \in requested.items :
        \/ r \in section.blocked.items
        \/ section.allowed.items # {} /\ r \notin section.allowed.items

\* C8: on CREATE of a Session with a valid framework, under a policy the
\* request is rejected exactly when it asks for a blocked model or tool, or
\* for one outside a non-empty allowed list; without a policy it is admitted.
\* (The review has read the policy, or found none.)
C8_ModelAndToolEnforcement ==
    (adm.op = "CREATE" /\ ~adm.getFails /\ validateFrameworkType(adm.spec) = Nil) =>
        IF policy[adm.ns].exists
          THEN validateFrameworkConstraints(adm.spec, policy[adm.ns]) = Nil =>
                  (adm.allowed <=> /\ ~restricted(adm.spec.models, policy[adm.ns].models)
                                   /\ ~restricted(adm.spec.tools, policy[adm.ns].tools))
          ELSE adm.allowed

remainder(p) == p.monthly - p.used

\* C9: on CREATE under a policy with a monthly budget, a Session whose budget
\* is one unit over the remaining allowance is rejected, and one whose budget
\* equals it is not rejected for its budget.
C9_BudgetBoundary ==
    (adm.op = "CREATE" /\ ~adm.getFails
       /\ policy[adm.ns].exists /\ policy[adm.ns].monthly > 0) =>
        /\ adm.spec.budget = remainder(policy[adm.ns]) + 1 => ~adm.allowed
        /\ (adm.spec.budget = remainder(policy[adm.ns])
              /\ validateCreate(adm.ns, [adm.spec EXCEPT !.budget = 0],
                                policy[adm.ns], FALSE).allowed) => adm.allowed

C11_TerminalPhaseSticky ==
    (adm.op = "UPDATE"
       /\ adm.old.phase \in TerminalPhases
       /\ adm.new.present
       /\ adm.new.phase \in SessionPhases \ TerminalPhases) => ~adm.allowed

\* the spec fields marked immutable: spec.trigger and spec.framework
immutableFields(spec) == <<spec.trigger, spec.shape, spec.type>>

\* C12: an UPDATE in which an immutable spec field differs between the old
\* and the new Session is rejected, so the stored Session keeps the values
\* it had.
C12_ImmutableSpecFields ==
    adm.op = "UPDATE" =>
        /\ immutableFields(adm.spec) # immutableFields(adm.oldSpec) => ~adm.allowed
        /\ immutableFields(sessions[1].spec) = immutableFields(adm.oldSpec)

\* a write to Session i commits only from the version its writer read, and
\* moves the Session to the next version
commitIsCompareAndSwap(i) ==
    sessions'[i] # sessions[i] =>
        /\ sessions'[i].rv = sessions[i].rv + 1
        /\ \/ rec' # rec /\ rec.id = i /\ rec.rv = sessions[i].rv
           \/ /\ pol' # pol /\ pol.pc = "mark"
              /\ Head(pol.todo).id = i /\ Head(pol.todo).rv = sessions[i].rv
           \/ upd' # upd /\ upd.id = i /\ upd.rv = sessions[i].rv
           \/ api' # api /\ api.id = i /\ api.rv = sessions[i].rv

C13_WritesAreCompareAndSwap ==
    [][\A i \in SessionIds : sessions[i].exists => commitIsCompareAndSwap(i)]_vars

\* C13: of the writes that start from one version of a Session exactly one
\* commits, the others are rejected without effect, and every commit keeps
\* the history committed before it, in order, in front of what it appends.
C13_OneCommitPerVersionKeepsHistory ==
    [][\A i \in SessionIds :
          sessions[i].exists =>
              /\ commitIsCompareAndSwap(i)
              /\ IsPrefix(sessions[i].status.history,
                          sessions'[i].status.history)]_vars

----------------------------------------------------------------------------
(* The Policy reconciler among Sessions that are created, stopped and
   completed while NamespacePolicies are applied. *)

PermissivePolicy == NamespacePolicy(NoSection, NoSection, NoSection, 0, 0)

PolPolicies == LifePolicies \cup {PermissivePolicy}

PolUpdCalls ==
    {<<PhaseStep(PhaseStopped, "Stop")>>, <<PhaseStep(PhaseCompleted, "SessionCompleted")>>,
     <<PhaseStep(PhaseRunning, "WorkloadStarted")>>}

\* A caller of the status updater sets the phase of a Session that has no
\* history yet, which leaves the reconciler room for its one entry.
PolUpdCall(id, steps) ==
    /\ sessions[id].exists
    /\ sessions[id].status.history = <<>>
    /\ UpdCall(id, steps)

NextPolicy ==
    \/ /\ nextId < MaxSessions
       /\ handleWebhook("test-api-key-123", "github", LifePayload, FALSE)
    \/ \E p \in PolPolicies : PolicyApply("team-alpha", p)
    \/ PolicyReconcile("team-alpha")
    \/ \E f \in BOOLEAN : PolMarkSessionViolation(f)
    \/ \E id \in SessionIds, steps \in PolUpdCalls : PolUpdCall(id, steps)
    \/ \E f \in BOOLEAN : UpdWrite(f)

SpecPolicy == Init /\ [][NextPolicy]_vars

\* C14: no NamespacePolicy creation or update and no step of the Policy
\* reconciler changes the spec (or the identity) of an existing Session; the
\* reconciler's writes change status only.
C14_PolicyNeverChangesSessionSpec ==
    [][(policy' # policy \/ pol' # pol) =>
          \A i \in SessionIds : sessions[i].exists =>
              /\ sessions'[i].exists
              /\ sessions'[i].ns = sessions[i].ns
              /\ sessions'[i].spec = sessions[i].spec]_vars

\* The reconciler has marked a Session, whose spec is still the one the
\* webhook created.
C14_Witness ==
    \E i \in SessionIds :
        /\ sessions[i].exists
        /\ sessions[i].status.violationReason # ""
        /\ sessions[i].status.phase = PhaseFailed
        /\ sessions[i].spec = createSessionFromWebhook("github", LifePayload)

\* Every write to the policy's status queues another Reconcile of it
\* (SetupWithManager filters no events), a Reconcile that has listed the
\* Sessions runs its loop to the end, and the API server does not fail the
\* same status write on every retry.
SpecPolicyFair ==
    /\ SpecPolicy
    /\ WF_vars(PolicyReconcile("team-alpha"))
    /\ SF_vars(PolMarkSessionViolation(FALSE))

violatesCurrentPolicy(i) ==
    /\ sessions[i].exists
    /\ policy[sessions[i].ns].exists
    /\ checkSessionViolation(sessions[i].spec, policy[sessions[i].ns]) # Nil

C15_ViolatorsEventuallyFailed ==
    \A i \in SessionIds :
        (violatesCurrentPolicy(i) /\ sessions[i].status.phase \notin TerminalPhases)
            ~> \/ sessions[i].status.phase = PhaseFailed /\ sessions[i].status.violationReason # ""
               \/ ~violatesCurrentPolicy(i)
               \/ sessions[i].status.phase \in TerminalPhases

C15_MarkingAppendsOneEntry ==
    [][pol' # pol =>
          \A i \in SessionIds : sessions'[i] # sessions[i] =>
              /\ sessions'[i].status.phase = PhaseFailed
              /\ Len(sessions'[i].status.history) = Len(sessions[i].status.history) + 1]_vars

C15_TerminalSessionsLeftUnchanged ==
    [][pol' # pol =>
          \A i \in SessionIds :
              (sessions[i].exists /\ sessions[i].status.phase \in TerminalPhases)
                  => sessions'[i] = sessions[i]]_vars

\* C15: after a NamespacePolicy changes, every Session of the tenant that is
\* not in a terminal phase and violates the current policy eventually is
\* Failed with a policy-violation reason and one more history entry, and the
\* Policy reconciler leaves every Session already in a terminal phase
\* (Completed, Failed, Stopped, TimedOut) unchanged.
C15_PolicyChangeFailsOnlyLiveViolators ==
    /\ C15_ViolatorsEventuallyFailed
    /\ C15_MarkingAppendsOneEntry
    /\ C15_TerminalSessionsLeftUnchanged

----------------------------------------------------------------------------
(* PolicyValidator (operator/pkg/webhooks): the admission webhook the manager
   registers for namespacepolicies, verbs create and update. *)

\* getStringSlice: the string items under a key, none when the key is absent
getStringSlice(list) == IF list.has THEN list.items ELSE {}

\* int(f) of Go: the fraction is dropped, towards zero
truncate(tenths) == IF tenths >= 0 THEN tenths \div 10 ELSE -((-tenths) \div 10)

\* toInt: the int of a value and whether it has one; strconv.Atoi reads a
\* string only when it is written without a fraction.
toInt(v) ==
    CASE v.kind = "int" -> [n |-> truncate(v.tenths), ok |-> TRUE]
      [] v.kind = "float" -> [n |-> truncate(v.tenths), ok |-> TRUE]
      [] v.kind = "string" -> IF v.tenths % 10 = 0 THEN [n |-> truncate(v.tenths), ok |-> TRUE]
                              ELSE [n |-> 0, ok |-> FALSE]
      [] OTHER -> [n |-> 0, ok |-> FALSE]

MaxResetDay == 28
MaxRequestsPerMinute == 1000
MaxBurstSize == 100

\* "!ok || n < 1 || n > max" on a field that exists
notBetween(v, max) ==
    /\ v.kind # "absent"
    /\ \/ ~toInt(v).ok
       \/ toInt(v).n < 1
       \/ toInt(v).n > max

\* validateModelsConfig without the overlap loop
PolicyValidator_validateModelsConfigBudgetOnly(req) ==
    IF ~req.models.has THEN Nil
    ELSE IF req.budgetError # Nil THEN req.budgetError
    ELSE IF notBetween(req.resetDay, MaxResetDay) THEN "resetDay must be between 1 and 28"
    ELSE Nil

PolicyValidator_validateModelsConfig(req) ==
    IF ~req.models.has THEN Nil
    ELSE IF getStringSlice(req.models.allowed) \cap getStringSlice(req.models.blocked) # {}
        THEN "model cannot be both allowed and blocked"
    ELSE IF req.budgetError # Nil THEN req.budgetError
    ELSE IF notBetween(req.resetDay, MaxResetDay) THEN "resetDay must be between 1 and 28"
    ELSE Nil

PolicyValidator_validateToolsConfig(req) ==
    IF ~req.tools.has THEN Nil
    ELSE IF getStringSlice(req.tools.allowed) \cap getStringSlice(req.tools.blocked) # {}
        THEN "tool cannot be both allowed and blocked"
    ELSE IF req.restrictionsError # Nil THEN req.restrictionsError
    ELSE Nil

\* An entry of webhookAuth.apiKeys: the key is a string, or another JSON value.
ApiKeyEntry(source, isString, key) == [source |-> source, isString |-> isString, key |-> key]

MinApiKeyLength == 10

\* validateWebhookAuth: the apiKeys loop.
PolicyValidator_validateApiKeys(webhookAuth) ==
    IF \E e \in webhookAuth.apiKeys : ~e.isString
        THEN "API key must be a string"
    ELSE IF \E e \in webhookAuth.apiKeys : Len(e.key) < MinApiKeyLength
        THEN "API key is too short (min 10 characters)"
    ELSE Nil

\* PolicyValidator.validateWebhookAuth
PolicyValidator_validateWebhookAuth(req) ==
    IF ~req.webhookAuth.has THEN Nil
    ELSE IF PolicyValidator_validateApiKeys(req.webhookAuth) # Nil
        THEN PolicyValidator_validateApiKeys(req.webhookAuth)
    ELSE IF notBetween(req.webhookAuth.requestsPerMinute, MaxRequestsPerMinute)
        THEN "requestsPerMinute must be between 1 and 1000"
    ELSE IF notBetween(req.webhookAuth.burstSize, MaxBurstSize)
        THEN "burstSize must be between 1 and 100"
    ELSE Nil

\* PolicyValidator.validatePolicy; otherError is the first error of the
\* retention, budget and notification sections.
PolicyValidator_validatePolicy(req) ==
    IF ~req.hasSpec THEN Denied("spec field is required")
    ELSE IF PolicyValidator_validateModelsConfig(req) # Nil
        THEN Denied("Invalid models configuration: " \o PolicyValidator_validateModelsConfig(req))
    ELSE IF PolicyValidator_validateToolsConfig(req) # Nil
        THEN Denied("Invalid tools configuration: " \o PolicyValidator_validateToolsConfig(req))
    ELSE IF req.otherError # Nil THEN Denied(req.otherError)
    ELSE IF PolicyValidator_validateWebhookAuth(req) # Nil
        THEN Denied("Invalid webhook authentication: " \o PolicyValidator_validateWebhookAuth(req))
    ELSE Allowed

PolicyRequest(hasSpec, models, tools, budgetError, restrictionsError, otherError) ==
    [hasSpec |-> hasSpec, models |-> models, tools |-> tools, budgetError |-> budgetError,
     restrictionsError |-> restrictionsError, otherError |-> otherError,
     webhookAuth |-> NoWebhookAuth, resetDay |-> NoValue]

\* PolicyValidator.Handle on a CREATE or UPDATE of the namespace's policy,
\* and the store's write when the review allows it.
PolicyValidator_Handle(ns, req, decodeFails) ==
    /\ IF ~decodeFails /\ PolicyValidator_validatePolicy(req).allowed
         THEN policy' = [policy EXCEPT ![ns] =
                            [NamespacePolicy(req.models, req.tools, NoSection, 0, 0)
                                EXCEPT !.webhookAuth = req.webhookAuth,
                                       !.resetDay = req.resetDay,
                                       !.usage = policy[ns].usage,
                                       !.conditions = policy[ns].conditions]]
         ELSE UNCHANGED policy
    /\ UNCHANGED <<authed, workloads, artifacts, resolved, exchanges, sessions, jobs, nextId, rec, pol, upd, api, responses, adm>>

PolicyLists(S) == {NoList} \cup {List(x) : x \in SUBSET S}

PolicySections(S) ==
    {NoSection} \cup {PolicySection(TRUE, a, b) : a \in PolicyLists(S), b \in PolicyLists(S)}

\* the errors of the sections that hold no lists: none, or one of them
PolicyOtherErrors ==
    {<<Nil, Nil, Nil>>, <<"invalid budget format", Nil, Nil>>,
     <<Nil, "restriction must be a boolean value", Nil>>,
     <<Nil, Nil, "Invalid retention configuration">>}

PolicyRequests ==
    {PolicyRequest(h, m, t, e[1], e[2], e[3]) :
        h \in BOOLEAN, m \in PolicySections(Models), t \in PolicySections({"bash", "edit"}),
        e \in PolicyOtherErrors}

NextPolicyAdmission ==
    \E req \in PolicyRequests, decodeFails \in BOOLEAN :
        PolicyValidator_Handle("team-alpha", req, decodeFails)

SpecPolicyAdmission == Init /\ [][NextPolicyAdmission]_vars

----------------------------------------------------------------------------
(* The read API: RBACMiddleware, then RequirePermission, then the handler
   (backend/pkg/middleware/rbac.go). *)

\* An Authorization header: "" when missing, else its scheme and the rest.
Header(scheme, token) == [scheme |-> scheme, token |-> token]

UserInfo(username, groups) == [ok |-> TRUE, username |-> username, groups |-> groups]

NoUser == [ok |-> FALSE, username |-> "", groups |-> {}]

parseJWTToken(token) ==
    CASE token = "valid-user-token" -> UserInfo("alice", {"developers", "team-alpha"})
      [] token = "admin-token" -> UserInfo("admin", {"system:masters", "admins"})
      [] token = "team-lead-token" -> UserInfo("team-lead", {"team-leads", "team-alpha", "team-beta"})
      [] OTHER -> NoUser

\* extractUserFromToken: the header must be "Bearer " followed by a token
\* parseJWTToken knows.
extractUserFromToken(header) ==
    IF header.scheme # "Bearer" THEN NoUser ELSE parseJWTToken(header.token)

IsSystemAdmin(user) == user.groups \cap {"system:masters", "admins"} # {}

\* The namespaces whose role bindings name one of the user's groups.
GetUserNamespaces(user) ==
    IF IsSystemAdmin(user) THEN Namespaces ELSE user.groups \cap Namespaces

\* checkKubernetesPermission asking about a fixed namespace
checkKubernetesPermissionInHomeNamespace(user, resource, verb, namespace, apiGroup, sarFails) ==
    IF sarFails THEN [allowed |-> FALSE, err |-> "failed to check permissions"]
    ELSE [allowed |-> /\ resource = "sessions" /\ apiGroup = "ambient.ai"
                      /\ verb \in {"get", "list"}
                      /\ "team-alpha" \in GetUserNamespaces(user),
          err |-> Nil]

\* checkKubernetesPermission: a SubjectAccessReview for the user, answered
\* from the cluster's role bindings, or an error of the call.
checkKubernetesPermission(user, resource, verb, namespace, apiGroup, sarFails) ==
    IF sarFails THEN [allowed |-> FALSE, err |-> "failed to check permissions"]
    ELSE [allowed |-> /\ resource = "sessions" /\ apiGroup = "ambient.ai"
                      /\ verb \in {"get", "list"}
                      /\ namespace \in GetUserNamespaces(user),
          err |-> Nil]

\* SessionManager.ListSessions: the Sessions of one namespace
ListSessions(namespace) ==
    {i \in SessionIds : sessions[i].exists /\ sessions[i].ns = namespace}

Exchange(header, namespace, sarFails, code, handlerRan, data) ==
    [header |-> header, namespace |-> namespace, sarFails |-> sarFails, code |-> code,
     handlerRan |-> handlerRan, data |-> data]

\* RequireSessionAccess(config, verb) on a route with a :namespace parameter,
\* behind RBACMiddleware: the response, and the handler's if it is reached.
RequirePermission(user, verb, namespace, header, sarFails) ==
    LET review == checkKubernetesPermission(user, "sessions", verb, namespace,
                                            "ambient.ai", sarFails)
    IN  IF ~user.ok THEN Exchange(header, namespace, sarFails, 401, FALSE, {})
        ELSE IF review.err # Nil THEN Exchange(header, namespace, sarFails, 500, FALSE, {})
        ELSE IF ~review.allowed THEN Exchange(header, namespace, sarFails, 403, FALSE, {})
        ELSE Exchange(header, namespace, sarFails, 200, TRUE, ListSessions(namespace))

RBACMiddleware(header, namespace, sarFails) ==
    IF ~extractUserFromToken(header).ok
        THEN Exchange(header, namespace, sarFails, 401, FALSE, {})
    ELSE RequirePermission(extractUserFromToken(header), "list", namespace, header, sarFails)

\* GET /api/v1/namespaces/:namespace/sessions
ListSessionsRequest(header, namespace, sarFails) ==
    /\ Cardinality(exchanges) < MaxRequests
    /\ exchanges' = exchanges \cup {RBACMiddleware(header, namespace, sarFails)}
    /\ UNCHANGED <<authed, workloads, artifacts, resolved, sessions, policy, jobs, nextId, rec, pol, upd, api, responses, adm>>

Headers ==
    {Header("", ""), Header("Basic", "valid-user-token"), Header("Bearer", "valid-user-token"),
     Header("Bearer", "admin-token"), Header("Bearer", "team-lead-token"),
     Header("Bearer", "expired-token")}

\* one Session stored in team-alpha and one in team-beta
InitRead ==
    /\ sessions = [i \in SessionIds |->
                      IF i = 1 THEN StoredSession("team-alpha", UpdateOldSpec)
                      ELSE IF i = 2 THEN StoredSession("team-beta", UpdateOldSpec)
                      ELSE NoSession]
    /\ policy = [ns \in Namespaces |-> NoPolicy]
    /\ jobs = [i \in SessionIds |-> NoJob]
    /\ nextId = 2
    /\ rec = RecIdle
    /\ pol = PolIdle
    /\ upd = UpdIdle
    /\ api = ApiIdle
    /\ responses = {}
    /\ adm = AdmIdle
    /\ exchanges = {}
    /\ resolved = NoneResolved
    /\ workloads = NoWorkloads
    /\ artifacts = NoArtifacts
    /\ authed = NoAuth

NextRead ==
    \E header \in Headers, namespace \in Namespaces, sarFails \in BOOLEAN :
        ListSessionsRequest(header, namespace, sarFails)

SpecRead == InitRead /\ [][NextRead]_vars

validToken(e) == e.header.scheme = "Bearer" /\ parseJWTToken(e.header.token).ok

authorized(e) == e.namespace \in GetUserNamespaces(parseJWTToken(e.header.token))

\* C17 as stated: the handler runs only for a valid token whose identity is
\* allowed in the URL's tenant; every other request is answered 401 (no or
\* invalid token) or 403 (not allowed), the handler does not run and no data
\* is returned.
C17_HandlerOnlyWhenAuthorized ==
    \A e \in exchanges :
        /\ e.handlerRan => validToken(e) /\ authorized(e)
        /\ ~e.handlerRan =>
                /\ e.data = {}
                /\ e.code = IF validToken(e) THEN 403 ELSE 401

\* C17 amended: as above, and a request whose access review call fails is
\* answered 500, again without running the handler.
C17_HandlerOnlyWhenAuthorizedOrError ==
    \A e \in exchanges :
        /\ e.handlerRan <=> (validToken(e) /\ ~e.sarFails /\ authorized(e))
        /\ e.handlerRan =>
                /\ e.code = 200
                /\ \A i \in e.data : sessions[i].ns = e.namespace
        /\ ~e.handlerRan =>
                /\ e.data = {}
                /\ e.code = IF ~validToken(e) THEN 401
                            ELSE IF e.sarFails THEN 500 ELSE 403

\* alice, bound to team-alpha only, asked for team-beta's Sessions and was
\* answered 403 with no data, while team-beta has a Session.
C17_Witness ==
    \E e \in exchanges :
        /\ e.header = Header("Bearer", "valid-user-token")
        /\ e.namespace = "team-beta"
        /\ ~e.sarFails
        /\ e.code = 403 /\ ~e.handlerRan /\ e.data = {}
        /\ ListSessions("team-beta") # {}

----------------------------------------------------------------------------
(* The webhook endpoint's error responses *)

\* the responses a step has sent
sent == responses' \ responses

\* C18: a webhook request whose credential is missing or matches no
\* registered credential is answered 401 and creates no Session.
C18_BadCredentialAnswered401 ==
    [][\A r \in sent :
          (r.apiKey = "" \/ r.apiKey \notin DOMAIN keyToNamespace) =>
              /\ r.code = 401
              /\ sessions' = sessions]_vars

\* The part of C18 the handler keeps: such a request is refused (400 for a
\* missing key, 401 for an unknown one) and creates no Session.
C18_BadCredentialRefused ==
    [][\A r \in sent :
          (r.apiKey = "" \/ r.apiKey \notin DOMAIN keyToNamespace) =>
              /\ r.code = IF r.apiKey = "" THEN 400 ELSE 401
              /\ r.sessionId = ""
              /\ sessions' = sessions]_vars

\* the request of response r passed the credential and body checks, and
\* policy evaluation or the admission review of its Session rejects it
rejectedByPolicy(r) ==
    /\ resolveNamespace(r.apiKey) # ""
    /\ r.payload.valid
    /\ \/ validateNamespacePolicy(resolveNamespace(r.apiKey), r.source) # Nil
       \/ ~CreateAdmitted(resolveNamespace(r.apiKey),
                          createSessionFromWebhook(r.source, r.payload))

\* C19: when admission or policy evaluation rejects the Session built from
\* a webhook request, the response is 403 with the violation reason and no
\* Session from that request exists afterwards.
C19_RejectionAnswered403 ==
    [][\A r \in sent : rejectedByPolicy(r) =>
          /\ r.code = 403
          /\ r.error = "policy_violation"
          /\ sessions' = sessions]_vars

\* The part of C19 the handler keeps: a rejected request gets an error
\* response and creates no Session.
C19_RejectionCreatesNoSession ==
    [][\A r \in sent : rejectedByPolicy(r) =>
          /\ r.code \in {403, 429, 500}
          /\ r.sessionId = ""
          /\ sessions' = sessions]_vars

----------------------------------------------------------------------------
(* The webhook endpoint of a handler built without a client *)

\* handleWebhook of NewWebhookHandler(nil): after the same checks it answers
\* 202 with a fresh uuid and the resolved namespace, and calls no Create.
handleWebhookNilClient(apiKey, source, payload) ==
    /\ Cardinality(responses) < MaxRequests
    /\ LET rej == webhookRejection(apiKey, source, payload)
       IN  responses' = responses \cup
               {IF rej.code # 0 THEN rej
                ELSE Response(apiKey, source, payload, 202, "", "uuid",
                              resolveNamespace(apiKey))}
    /\ UNCHANGED <<authed, workloads, artifacts, sessions, policy, jobs, nextId, rec, pol, upd, api, adm, exchanges, resolved>>

NextHookHandlers ==
    \/ NextHook
    \/ \E k \in ApiKeys, src \in Sources, pl \in Payloads :
            handleWebhookNilClient(k, src, pl)

SpecHookHandlers == Init /\ [][NextHookHandlers]_vars

\* C20: handleWebhook answers 202 only once the Session is stored; the
\* sessionId and tenant of the response are the stored Session's name and
\* namespace; a request whose Session was not stored is not answered 202.
C20_AcceptedOnlyAfterStored ==
    [][\A r \in sent : r.code = 202 =>
          \E i \in SessionIds :
              /\ ~sessions[i].exists
              /\ sessions'[i].exists
              /\ SessionName(i) = r.sessionId
              /\ sessions'[i].ns = r.namespace
              /\ sessions'[i].spec = createSessionFromWebhook(r.source, r.payload)]_vars

----------------------------------------------------------------------------
(* NamespaceResolver.ResolveNamespaceFromAPIKey over the stored policies *)

\* List returns the policies in the order of their store keys, which begin
\* with the namespace.
NamespaceOrder == <<"team-alpha", "team-beta", "team-gamma">>

holdsKey(ns, apiKey) ==
    /\ policy[ns].exists
    /\ \E e \in policy[ns].webhookAuth.apiKeys : e.isString /\ e.key = apiKey

\* the namespace of the first listed policy holding the key, "" with an
\* error when no policy holds it
ResolveNamespaceFromAPIKey(apiKey) ==
    LET hits == SelectSeq(NamespaceOrder, LAMBDA ns : holdsKey(ns, apiKey))
    IN  IF hits = <<>> THEN "" ELSE Head(hits)

\* One call of ResolveNamespaceFromAPIKey; listFails: the List call errs.
ResolveKey(apiKey, listFails) ==
    /\ resolved' = IF listFails THEN resolved
                   ELSE [resolved EXCEPT ![apiKey] = @ \cup {ResolveNamespaceFromAPIKey(apiKey)}]
    /\ UNCHANGED <<authed, workloads, artifacts, sessions, policy, jobs, nextId, rec, pol, upd, api, responses, adm, exchanges>>

ApiKeyEntries ==
    {ApiKeyEntry(src, TRUE, k) : src \in {"github"}, k \in SenderKeys \cup {"short-key"}}
        \cup {ApiKeyEntry("github", FALSE, "12345678901")}

WebhookAuthRequests ==
    {[PolicyRequest(TRUE, NoSection, NoSection, Nil, Nil, Nil)
        EXCEPT !.webhookAuth = WebhookAuth({e}, NoValue, NoValue)] : e \in ApiKeyEntries}

NextWebhookAuth ==
    \/ \E ns \in Namespaces, req \in WebhookAuthRequests, decodeFails \in BOOLEAN :
            PolicyValidator_Handle(ns, req, decodeFails)
    \/ \E k \in SenderKeys, listFails \in BOOLEAN : ResolveKey(k, listFails)

SpecWebhookAuth == Init /\ [][NextWebhookAuth]_vars

tenantsOf(apiKey) == {ns \in Namespaces : holdsKey(ns, apiKey)}

\* C21: each API key resolves to exactly one tenant: no key is held by the
\* admitted policies of two tenants, and the calls that resolve a key never
\* return two different tenants.
C21_KeyResolvesToOneTenant ==
    \A k \in SenderKeys :
        /\ Cardinality(tenantsOf(k)) <= 1
        /\ Cardinality(resolved[k] \ {""}) <= 1

----------------------------------------------------------------------------
(* The webhook endpoint of a tenant whose policy sets a rate limit *)

RatePolicy ==
    [PermissivePolicy EXCEPT !.webhookAuth = WebhookAuth({}, IntValue(60), IntValue(1))]

InitRate ==
    /\ sessions = [i \in SessionIds |-> NoSession]
    /\ policy = [ns \in Namespaces |-> IF ns = "team-alpha" THEN RatePolicy ELSE NoPolicy]
    /\ jobs = [i \in SessionIds |-> NoJob]
    /\ nextId = 0
    /\ rec = RecIdle
    /\ pol = PolIdle
    /\ upd = UpdIdle
    /\ api = ApiIdle
    /\ responses = {}
    /\ adm = AdmIdle
    /\ exchanges = {}
    /\ resolved = NoneResolved
    /\ workloads = NoWorkloads
    /\ artifacts = NoArtifacts
    /\ authed = NoAuth

SpecHookRate == InitRate /\ [][NextHook]_vars

\* the well-formed requests of a tenant and source already answered without
\* a 429
withinWindow(ns, source) ==
    {q \in responses : /\ resolveNamespace(q.apiKey) = ns
                       /\ q.source = source
                       /\ q.payload.valid
                       /\ q.code # 429}

burstSize(ns) == toInt(policy[ns].webhookAuth.burstSize).n

\* C22: per tenant and source, of the authenticated (and well-formed) webhook
\* requests of one rate-limit window the first burstSize are not rejected for
\* rate limiting, and the next is answered 429 and creates no Session.
C22_BurstThenRateLimited ==
    [][\A r \in sent :
          LET ns == resolveNamespace(r.apiKey)
          IN  (ns # "" /\ r.payload.valid /\ policy[ns].exists /\ policy[ns].webhookAuth.has) =>
                  IF Cardinality(withinWindow(ns, r.source)) < burstSize(ns)
                    THEN r.code # 429
                    ELSE r.code = 429 /\ sessions' = sessions]_vars

\* C23: a request whose identity is in a system-admin group is allowed,
\* whatever tenant it names and whatever the access review answers for it.
C23_SystemAdminAlwaysAllowed ==
    \A e \in exchanges :
        (validToken(e) /\ IsSystemAdmin(parseJWTToken(e.header.token))) =>
            e.handlerRan /\ e.code = 200

\* What the middleware does for a system admin: the handler runs exactly
\* when the access review was made and allowed the request.
C23_SystemAdminDecidedByReview ==
    \A e \in exchanges :
        (validToken(e) /\ IsSystemAdmin(parseJWTToken(e.header.token))) =>
            (e.handlerRan <=> ~e.sarFails)
----------------------------------------------------------------------------
(* Usage metrics of a NamespacePolicy *)

tenantSessions(ns) == {i \in SessionIds : sessions[i].exists /\ sessions[i].ns = ns}

usageWritten(ns) ==
    /\ policy'[ns].usage.present
    /\ policy'[ns].usage # policy[ns].usage

\* C24: the usage a Policy reconcile stores, with the Sessions as they are at
\* that step, has sessions.active equal to the number of the tenant's
\* Sessions in phase Pending or Running, a Session without a recorded phase
\* counting as Pending, and sessions.total equal to the number of all the
\* tenant's Sessions.
C24_UsageCountsActiveAndTotal ==
    [][\A ns \in Namespaces : usageWritten(ns) =>
          /\ policy'[ns].usage.active =
                Cardinality({i \in tenantSessions(ns) :
                    getPhase(sessions[i].status) \in {PhasePending, PhaseRunning}})
          /\ policy'[ns].usage.total = Cardinality(tenantSessions(ns))]_vars

\* What the reconcile stores: the Sessions whose recorded phase is Pending or
\* Running, and all the tenant's Sessions.
C24_UsageCountsRecordedPhases ==
    [][\A ns \in Namespaces : usageWritten(ns) =>
          /\ policy'[ns].usage.active =
                Cardinality({i \in tenantSessions(ns) :
                    sessions[i].status.phase \in {PhasePending, PhaseRunning}})
          /\ policy'[ns].usage.total = Cardinality(tenantSessions(ns))]_vars

----------------------------------------------------------------------------
(* The numbers of a NamespacePolicy at admission *)

\* values offered for a field whose upper limit is max: none, integers and
\* fractions at and beside both limits, the limit as text, a boolean
NumberValues(max) ==
    {NoValue, IntValue(0), IntValue(1), IntValue(max), IntValue(max + 1),
     Value("float", 5), Value("float", 15), Value("float", max * 10 + 5),
     Value("float", max * 10 + 10), Value("string", max * 10),
     Value("string", max * 10 + 5), Value("bool", 0)}

NumberRequests ==
    {[PolicyRequest(TRUE, PolicySection(TRUE, NoList, NoList), NoSection, Nil, Nil, Nil)
        EXCEPT !.resetDay = d, !.webhookAuth = WebhookAuth({}, rpm, burst)] :
        d \in NumberValues(MaxResetDay), rpm \in NumberValues(MaxRequestsPerMinute),
        burst \in NumberValues(MaxBurstSize)}

NextNumbers ==
    \E req \in NumberRequests, decodeFails \in BOOLEAN :
        PolicyValidator_Handle("team-alpha", req, decodeFails)

SpecNumbers == Init /\ [][NextNumbers]_vars

\* the number of v lies in 1..max
within(v, max) == v.kind # "bool" /\ 10 <= v.tenths /\ v.tenths <= max * 10

\* C25: every NamespacePolicy the PolicyValidator admits, and so every
\* stored one, has models.budget.resetDay within 1..28,
\* webhookAuth.rateLimit.requestsPerMinute within 1..1000 and
\* webhookAuth.rateLimit.burstSize within 1..100 where the field is given,
\* whether the number is written as an integer or with a fraction.
C25_AdmittedNumbersInRange ==
    \A ns \in Namespaces : policy[ns].exists =>
        /\ policy[ns].resetDay # NoValue => within(policy[ns].resetDay, MaxResetDay)
        /\ policy[ns].webhookAuth.requestsPerMinute # NoValue =>
              within(policy[ns].webhookAuth.requestsPerMinute, MaxRequestsPerMinute)
        /\ policy[ns].webhookAuth.burstSize # NoValue =>
              within(policy[ns].webhookAuth.burstSize, MaxBurstSize)

\* What admission ensures: the integer part of each given number is in range.
C25_AdmittedIntegerPartsInRange ==
    \A ns \in Namespaces : policy[ns].exists =>
        /\ ~notBetween(policy[ns].resetDay, MaxResetDay)
        /\ ~notBetween(policy[ns].webhookAuth.requestsPerMinute, MaxRequestsPerMinute)
        /\ ~notBetween(policy[ns].webhookAuth.burstSize, MaxBurstSize)
        /\ \A v \in {policy[ns].resetDay, policy[ns].webhookAuth.requestsPerMinute,
                      policy[ns].webhookAuth.burstSize} : v.tenths >= 10 \/ v = NoValue

----------------------------------------------------------------------------
(* The run of one Session: the Session reconciler, the workload and a stop
   request. *)

\* The stop endpoint of the contract: it sets the stop flag in the spec of a
\* Running Session, for the reconciler to act on.  The update leaves the
\* reconciler a version for its write.
StopSession(id) ==
    /\ sessions[id].exists
    /\ sessions[id].status.phase = PhaseRunning
    /\ ~sessions[id].spec.stop
    /\ sessions[id].rv < MaxVersion - 1
    /\ sessions' = [sessions EXCEPT ![id].spec.stop = TRUE, ![id].rv = @ + 1]
    /\ UNCHANGED <<authed, workloads, artifacts, resolved, exchanges, policy, jobs, nextId, rec, pol, upd, api, responses, adm>>

\* The Job is removed from the cluster by someone other than the reconciler.
JobDeleted(id) ==
    /\ jobs[id].exists
    /\ jobs' = [jobs EXCEPT ![id] = NoJob]
    /\ UNCHANGED <<authed, workloads, artifacts, resolved, exchanges, sessions, policy, nextId, rec, pol, upd, api, responses, adm>>

\* policies applied while the Session runs: one whose allowed list leaves out
\* the model the webhook's Sessions request, one that blocks it
RunPolicies ==
    LifePolicies \cup
        {NamespacePolicy(PolicySection(TRUE, NoList, List({"claude-3-sonnet"})),
                         NoSection, NoSection, 0, 0)}

NextRun ==
    \/ /\ nextId < LifeSessions
       /\ handleWebhook("test-api-key-123", "github", LifePayload, FALSE)
    \/ \E p \in RunPolicies : PolicyApply("team-alpha", p)
    \/ \E id \in SessionIds : Reconcile(id)
    \/ \E f \in BOOLEAN : RecValidatePolicy(f)
    \/ \E f \in BOOLEAN : RecCreateWorkload(f)
    \/ \E f \in BOOLEAN : RecUpdateWorkloadInfo(f)
    \/ \E f \in BOOLEAN : RecUpdatePhase(f)
    \/ \E f \in BOOLEAN : RecCheckWorkloadStatus(f)
    \/ \E id \in SessionIds, st \in {"active", "succeeded", "failed"} :
            JobProgress(id, st)
    \/ \E id \in SessionIds : JobDeleted(id)
    \/ \E id \in SessionIds : StopSession(id)

SpecRun == Init /\ [][NextRun]_vars

\* The controller's queue hands every Session with work left back to
\* Reconcile (an error and a RequeueAfter both requeue), a reconcile under
\* way runs on, and no call to the API server fails on every retry.
SpecRunFair ==
    /\ SpecRun
    /\ WF_vars(\E id \in SessionIds : Reconcile(id))
    /\ SF_vars(RecValidatePolicy(FALSE))
    /\ SF_vars(RecCreateWorkload(FALSE))
    /\ SF_vars(RecUpdateWorkloadInfo(FALSE))
    /\ SF_vars(RecUpdatePhase(FALSE))
    /\ SF_vars(RecCheckWorkloadStatus(FALSE))

hasEvent(i, event) ==
    \E k \in 1..Len(sessions[i].status.history) :
        sessions[i].status.history[k].event = event

stopRequested(i) ==
    /\ sessions[i].exists
    /\ sessions[i].status.phase = PhaseRunning
    /\ sessions[i].spec.stop

\* C26: a Running Session for which a stop has been requested eventually has
\* phase Stopped, its workload deleted, and a PhaseChanged:Stopped entry in
\* its history.
C26_StopLeadsToStopped ==
    \A i \in SessionIds :
        stopRequested(i) ~>
            /\ sessions[i].status.phase = PhaseStopped
            /\ ~jobs[i].exists
            /\ hasEvent(i, "PhaseChanged" \o PhaseStopped)

\* What the reconciler does with a stop request: nothing.  It never records
\* Stopped and never deletes a Job.
C26_ReconcilerNeverStops ==
    [][/\ \A i \in SessionIds : sessions'[i].status.phase # PhaseStopped
       /\ \A i \in SessionIds : (jobs[i].exists /\ rec' # rec) => jobs'[i].exists]_vars

----------------------------------------------------------------------------
(* Retention *)

MaxAge == 2

\* A day passes: metadata.creationTimestamp of every Session is a day older.
Tick ==
    /\ \E i \in SessionIds : sessions[i].exists /\ sessions[i].age < MaxAge
    /\ sessions' = [i \in SessionIds |->
                        IF sessions[i].exists /\ sessions[i].age < MaxAge
                          THEN [sessions[i] EXCEPT !.age = @ + 1]
                          ELSE sessions[i]]
    /\ UNCHANGED <<authed, workloads, artifacts, resolved, exchanges, policy, jobs, nextId, rec, pol, upd, api, responses, adm>>

\* policies with retention.sessions of one day, and without retention
RetentionPolicies == {PermissivePolicy, [PermissivePolicy EXCEPT !.retention = 1]}

NextRetention ==
    \/ /\ nextId < MaxSessions
       /\ handleWebhook("test-api-key-123", "github", LifePayload, FALSE)
    \/ \E p \in RetentionPolicies : PolicyApply("team-alpha", p)
    \/ PolicyReconcile("team-alpha")
    \/ \E id \in SessionIds, steps \in PolUpdCalls : PolUpdCall(id, steps)
    \/ \E f \in BOOLEAN : UpdWrite(f)
    \/ Tick

SpecRetention == Init /\ [][NextRetention]_vars

\* Every write to the policy's status queues another Reconcile of it, so the
\* policy is reconciled, and with it the retention is looked at, again and
\* again.
SpecRetentionFair == SpecRetention /\ WF_vars(PolicyReconcile("team-alpha"))

expired(i) ==
    /\ sessions[i].exists
    /\ sessions[i].status.phase \in TerminalPhases
    /\ policy[sessions[i].ns].exists
    /\ policy[sessions[i].ns].retention > 0
    /\ sessions[i].age >= policy[sessions[i].ns].retention

\* C27: a Session in a terminal phase whose age has reached the policy's
\* retention.sessions is eventually deleted (by the next sweep), and no
\* Session outside a terminal phase is ever deleted by a sweep.
C27_RetentionSweepDeletesExpired ==
    /\ \A i \in SessionIds : expired(i) ~> ~sessions[i].exists
    /\ [][\A i \in SessionIds :
            (sessions[i].exists /\ ~sessions'[i].exists) =>
                sessions[i].status.phase \in TerminalPhases]_vars

\* What happens: no step deletes a Session, expired or not.
C27_NoSessionDeleted ==
    [][\A i \in SessionIds : sessions[i].exists => sessions'[i].exists]_vars

----------------------------------------------------------------------------
(* The first phase of a Session *)

firstRecorded(i) ==
    /\ sessions[i].exists
    /\ sessions[i].status.phase = NoPhase
    /\ sessions'[i].status.phase # NoPhase

\* C28: the first phase recorded in the status of a created Session is
\* Pending; Running, Completed or Failed is never recorded for a Session
\* whose status has had no phase so far.
C28_FirstRecordedPhaseIsPending ==
    [][\A i \in SessionIds :
          firstRecorded(i) => sessions'[i].status.phase = PhasePending]_vars

\* What the reconciler records first: Running once the workload is created,
\* Failed when the policy check or the workload creation fails.
C28_FirstRecordedPhaseIsRunningOrFailed ==
    [][\A i \in SessionIds :
          firstRecorded(i) => sessions'[i].status.phase \in {PhaseRunning, PhaseFailed}]_vars

----------------------------------------------------------------------------
(* The policy check of a Pending Session *)

violatesPolicy(i) ==
    /\ sessions[i].exists
    /\ policy[sessions[i].ns].exists
    /\ \/ restricted(sessions[i].spec.models, policy[sessions[i].ns].models)
       \/ restricted(sessions[i].spec.tools, policy[sessions[i].ns].tools)

outsideAllowedList(i) ==
    /\ sessions[i].exists
    /\ policy[sessions[i].ns].exists
    /\ \/ validateModels(sessions[i].spec, policy[sessions[i].ns]) # Nil
       \/ validateTools(sessions[i].spec, policy[sessions[i].ns]) # Nil

\* the reconcile of Pending Session i has made its policy check
policyChecked(i) ==
    /\ rec.pc = "validatePolicy"
    /\ rec.id = i
    /\ rec'.pc # "validatePolicy"

\* C29: when a Pending Session is reconciled and its spec.policy violates the
\* current NamespacePolicy (a requested model or tool is blocked, or is
\* outside a non-empty allowed list), the reconcile goes on to record Failed
\* for a policy failure and not to create a workload.
C29_PendingViolationFails ==
    [][\A i \in SessionIds : (policyChecked(i) /\ violatesPolicy(i)) =>
          /\ rec'.pc = "updatePhase"
          /\ rec'.phase = PhaseFailed]_vars

\* What the reconciler enforces: a request outside an allowed list of the
\* policy.
C29_OutsideAllowedListFails ==
    [][\A i \in SessionIds : (policyChecked(i) /\ outsideAllowedList(i)) =>
          /\ rec'.pc = "updatePhase"
          /\ rec'.phase = PhaseFailed
          /\ jobs' = jobs]_vars

----------------------------------------------------------------------------
(* The end of a Running Session *)

\* a Running Session that the bounds of the model leave one more write
running(i) ==
    /\ sessions[i].exists
    /\ sessions[i].status.phase = PhaseRunning
    /\ sessions[i].rv < MaxVersion
    /\ Len(sessions[i].status.history) < MaxHistory

workloadIs(i, state) == jobs[i].exists /\ jobs[i].state = state

\* A Running Session whose workload has ended is recorded as Completed or
\* Failed accordingly, unless the workload is removed before that.
C30_FinishedWorkloadRecorded ==
    \A i \in SessionIds :
        /\ (running(i) /\ workloadIs(i, "succeeded")) ~>
                (sessions[i].status.phase = PhaseCompleted \/ ~jobs[i].exists)
        /\ (running(i) /\ workloadIs(i, "failed")) ~>
                (sessions[i].status.phase = PhaseFailed \/ ~jobs[i].exists)

\* C30: a Running Session eventually reaches a terminal phase: Completed if
\* its workload succeeded, Failed if its workload failed, and Failed (with
\* reason WorkloadLost) if its workload no longer exists.  A workload that
\* is removed after the reconciler has read its end may still be recorded by
\* that end, so the last case asks for a terminal phase only.
C30_RunningReachesTerminal ==
    \A i \in SessionIds :
        /\ (running(i) /\ workloadIs(i, "succeeded")) ~>
                (sessions[i].status.phase = PhaseCompleted \/ ~jobs[i].exists)
        /\ (running(i) /\ workloadIs(i, "failed")) ~>
                (sessions[i].status.phase = PhaseFailed \/ ~jobs[i].exists)
        /\ (running(i) /\ ~jobs[i].exists) ~> sessions[i].status.phase \in TerminalPhases

----------------------------------------------------------------------------
(* Workloads that exist before the reconciler creates one *)

\* A Job with the name buildJob derives from Session id is in the namespace
\* already, with a controller reference to another Session.
JobOfOtherSession(id, owner) ==
    /\ owner # id
    /\ ~jobs[id].exists
    /\ jobs' = [jobs EXCEPT ![id] = [buildJob(id) EXCEPT !.owner = owner]]
    /\ UNCHANGED <<authed, workloads, artifacts, resolved, exchanges, sessions, policy, nextId, rec, pol, upd, api, responses, adm>>

NextWorkload ==
    \/ NextRun
    \/ \E id \in SessionIds, owner \in SessionIds : JobOfOtherSession(id, owner)

SpecWorkload == Init /\ [][NextWorkload]_vars

\* the reconcile of Pending Session i has made its Create call
createCalled(i) ==
    /\ rec.pc = "createWorkload"
    /\ rec.id = i
    /\ rec'.pc # "createWorkload"

nameTaken(i) == jobs[i].exists /\ jobs[i].owner # i

\* C31: when a Pending Session is reconciled and a workload with the name
\* derived from it exists and is owned by another Session, the reconcile
\* goes on to record Failed, and no Session is recorded Running while the
\* workload under its name belongs to another Session.
C31_NameConflictFails ==
    [][\A i \in SessionIds :
          /\ (createCalled(i) /\ nameTaken(i)) =>
                (rec'.pc = "updatePhase" /\ rec'.phase = PhaseFailed)
          /\ (sessions[i].status.phase # PhaseRunning
                /\ sessions'[i].status.phase = PhaseRunning) => ~nameTaken(i)]_vars

\* What createWorkload does with a name that is taken: it leaves the Job as
\* it is and goes on as if it had created it, whoever owns the Job.
C31_ExistingJobIsKept ==
    [][\A i \in SessionIds :
          (createCalled(i) /\ jobs[i].exists) =>
              /\ jobs' = jobs
              /\ rec'.pc = "updateWorkloadInfo" \/ rec'.phase = PhaseFailed]_vars


----------------------------------------------------------------------------
(* WorkloadCreator: the workload package's way to a Job *)

FrameworkClaudeCode == "claude-code"
FrameworkGeneric == "generic"

\* the name WorkloadCreator.buildJob gives the Job of a Session
WorkloadName(id) == SessionName(id) \o "-workload"

\* extractWorkloadConfig: the error it returns for spec.framework.type
extractWorkloadConfig(type) ==
    IF type = "" THEN "framework type not specified"
    ELSE IF type \notin {FrameworkClaudeCode, FrameworkGeneric}
           THEN "unsupported framework type"
    ELSE Nil

\* CreateWorkloadForSession: the configuration, then buildJob, then one
\* Create, every error of which is returned; serverFails is a Create that
\* fails for another reason than the name.
CreateWorkloadForSession(id, serverFails) ==
    /\ sessions[id].exists
    /\ LET w == workloads[id]
           cfgErr == extractWorkloadConfig(sessions[id].spec.type)
           err == IF cfgErr # Nil THEN "failed to extract workload config: " \o cfgErr
                  ELSE IF serverFails THEN "failed to create Job: server error"
                  ELSE IF w.job.exists THEN "failed to create Job: already exists"
                  ELSE Nil
       IN  workloads' = [workloads EXCEPT ![id] =
                [job |-> IF err = Nil THEN buildJob(id) ELSE w.job,
                 called |-> TRUE, err |-> err]]
    /\ UNCHANGED <<authed, artifacts, resolved, exchanges, sessions, policy, jobs, nextId, rec, pol, upd, api, responses, adm>>

NextCreator ==
    \/ NextRun
    \/ \E id \in SessionIds, f \in BOOLEAN : CreateWorkloadForSession(id, f)

SpecCreator == Init /\ [][NextCreator]_vars

\* CreateWorkloadForSession has answered a call for Session i
creatorCalled(i) == workloads'[i] # workloads[i]

\* C32: creating the workload of a Session again, when the one with the
\* name derived from the Session exists, changes nothing and is not an
\* error: the reconciler's Create leaves the Job as it is, and the workload
\* creator's Create leaves the Job as it is and does not answer with the
\* error of a name that exists.
C32_CreateAgainIsNoError ==
    [][\A i \in SessionIds :
          /\ (createCalled(i) /\ jobs[i].exists) => jobs' = jobs
          /\ (creatorCalled(i) /\ workloads[i].job.exists) =>
                /\ workloads'[i].job = workloads[i].job
                /\ workloads'[i].err # "failed to create Job: already exists"]_vars

\* What holds of both: a Job that exists is never replaced by a Create, and
\* the reconciler goes on to updateWorkloadInfo when its Create finds the
\* name, unless the call itself failed.
C32_ExistingWorkloadIsNotReplaced ==
    [][\A i \in SessionIds :
          /\ (createCalled(i) /\ jobs[i].exists) =>
                /\ jobs' = jobs
                /\ rec'.pc = "updateWorkloadInfo"
                   \/ rec'.message = "Workload creation failed"
          /\ (creatorCalled(i) /\ workloads[i].job.exists) =>
                workloads'[i].job = workloads[i].job]_vars

\* the reconciler has come back to a Pending Session whose Job exists, and
\* the workload creator has been asked twice
C32_Witness ==
    \E i \in SessionIds :
        /\ rec.pc = "createWorkload" /\ rec.id = i /\ jobs[i].exists
        /\ workloads[i].job.exists
        /\ workloads[i].err = "failed to create Job: already exists"


----------------------------------------------------------------------------
(* The workload of a Session that has ended *)

NextCleanup ==
    \/ NextRun
    \/ PolicyReconcile("team-alpha")
    \/ \E f \in BOOLEAN : PolMarkSessionViolation(f)

SpecCleanup == Init /\ [][NextCleanup]_vars

\* Both controllers are handed their resources again and again, a reconcile
\* under way runs on, and no call to the API server fails on every retry.
SpecCleanupFair ==
    /\ SpecCleanup
    /\ WF_vars(\E id \in SessionIds : Reconcile(id))
    /\ SF_vars(RecValidatePolicy(FALSE))
    /\ SF_vars(RecCreateWorkload(FALSE))
    /\ SF_vars(RecUpdateWorkloadInfo(FALSE))
    /\ SF_vars(RecUpdatePhase(FALSE))
    /\ SF_vars(RecCheckWorkloadStatus(FALSE))
    /\ WF_vars(PolicyReconcile("team-alpha"))
    /\ SF_vars(PolMarkSessionViolation(FALSE))

\* the NamespacePolicy of Session i keeps what has ended for some days
retained(i) ==
    /\ policy[sessions[i].ns].exists
    /\ policy[sessions[i].ns].retention > 0

\* Session i has ended and its Job is in the cluster
endedWithWorkload(i) ==
    /\ sessions[i].exists
    /\ sessions[i].status.phase \in TerminalPhases
    /\ jobs[i].exists

\* C33: once a Session is in a terminal phase (Failed for PolicyViolation
\* with its workload still running included), its workload is eventually
\* deleted, unless the retention policy retains it.
C33_TerminalWorkloadDeleted ==
    \A i \in SessionIds :
        (endedWithWorkload(i) /\ ~retained(i)) ~> (~jobs[i].exists \/ retained(i))

\* What the controllers do with the workload of a Session that has ended:
\* a Job leaves the cluster only in a step that is none of theirs.
C33_ControllersDeleteNoWorkload ==
    [][\A i \in SessionIds :
          (jobs[i].exists /\ ~jobs'[i].exists) =>
              (rec' = rec /\ pol' = pol /\ sessions' = sessions)]_vars

\* a Session marked Failed for PolicyViolation while its Job is active
C33_Witness ==
    \E i \in SessionIds :
        /\ endedWithWorkload(i)
        /\ hasEvent(i, "PolicyViolation")
        /\ jobs[i].state = "active"


----------------------------------------------------------------------------
(* Errors while a Pending Session is reconciled *)

\* the messages handlePending records for a call that failed: the Get of
\* the NamespacePolicy, the Create of the Job
TransientMessages ==
    {"Policy validation failed: failed to get namespace policy",
     "Workload creation failed"}

\* the reconciler's status write takes Session i from Pending to Failed
pendingRecordedFailed(i) ==
    /\ rec.pc = "updatePhase"
    /\ rec.id = i
    /\ getPhase(sessions[i].status) = PhasePending
    /\ sessions'[i].status.phase = PhaseFailed

\* C34: an error of the store or the orchestrator while a Pending Session
\* is reconciled leaves the Session Pending: the reconciler records Failed
\* for a Pending Session only for a validation or policy error.
C34_TransientErrorKeepsPending ==
    [][\A i \in SessionIds :
          pendingRecordedFailed(i) => rec.message \notin TransientMessages]_vars

\* What handlePending does with an error: whichever step fails, and however,
\* the next step is updatePhase with Failed.
C34_EveryPendingErrorFails ==
    [][(/\ rec' # rec
        /\ \/ rec.pc = "validatePolicy" /\ rec'.pc # "createWorkload"
           \/ rec.pc = "createWorkload" /\ rec'.pc # "updateWorkloadInfo")
          => (rec'.pc = "updatePhase" /\ rec'.phase = PhaseFailed)]_vars


----------------------------------------------------------------------------
(* status.conditions *)

\* the types of the conditions a status holds, one entry per condition
conditionTypes(status) == [k \in 1..Len(status.conditions) |-> status.conditions[k].type]

onePerType(status) ==
    \A j, k \in 1..Len(status.conditions) :
        status.conditions[j].type = status.conditions[k].type => j = k

\* C35: in every reachable state, status.conditions of a Session holds at
\* most one condition per type.
C35_OneConditionPerType ==
    \A i \in SessionIds : sessions[i].exists => onePerType(sessions[i].status)


\* The reconciler and the status updater, over histories one entry and one
\* version longer than elsewhere: long enough for a phase to be recorded,
\* left and recorded again.
LongHistory == 4
LongVersion == 5

NextConditions ==
    \/ /\ nextId < LifeSessions
       /\ handleWebhook("test-api-key-123", "github", LifePayload, FALSE)
    \/ \E id \in SessionIds : Reconcile(id)
    \/ \E f \in BOOLEAN : RecValidatePolicy(f)
    \/ \E f \in BOOLEAN : RecCreateWorkload(f)
    \/ \E f \in BOOLEAN : RecUpdateWorkloadInfoWithin(f, LongVersion)
    \/ \E f \in BOOLEAN : RecUpdatePhaseWithin(f, LongVersion, LongHistory)
    \/ \E f \in BOOLEAN : RecCheckWorkloadStatus(f)
    \/ \E id \in SessionIds, st \in {"active", "succeeded", "failed"} :
            JobProgress(id, st)
    \/ \E id \in SessionIds, steps \in UpdCalls : UpdCall(id, steps)
    \/ \E f \in BOOLEAN : UpdWriteWithin(f, LongVersion, LongHistory)

SpecConditions == Init /\ [][NextConditions]_vars

\* What the status updater keeps: no write of UpdateCondition adds a
\* condition of a type the status holds, and only the reconciler's
\* updatePhase makes status.conditions longer by a type that is there.
C35_OnlyUpdatePhaseAddsATypeTwice ==
    [][\A i \in SessionIds :
          (onePerType(sessions[i].status) /\ ~onePerType(sessions'[i].status))
              => (rec.pc = "updatePhase" /\ rec.id = i /\ upd' = upd)]_vars


----------------------------------------------------------------------------
(* A Session the validator admitted, under a policy that stays as it is *)

\* the policies applied to the namespace: models sections without lists,
\* with a blocked list, with an empty allowed list and with both lists,
\* tools sections without lists and with both lists
AdmitPolicies ==
    {NamespacePolicy(m, t, NoSection, 0, 0) :
        m \in {NoSection,
               PolicySection(TRUE, NoList, List({"claude-3-sonnet"})),
               PolicySection(TRUE, List({}), NoList),
               PolicySection(TRUE, List({"claude-3-sonnet"}), List({"claude-3-opus"}))},
        t \in {NoSection, PolicySection(TRUE, List({"bash"}), List({"edit"}))}}

\* the Sessions sent for review
AdmitSpecs ==
    {SessionSpec("typed", "claude-code", m, t, 0, ManualTrigger) :
        m \in {NoList} \cup {List({x}) : x \in Models},
        t \in {NoList, List({"bash"}), List({"bash", "edit"})}}

NextAdmitted ==
    \/ \E spec \in AdmitSpecs : HandleCreate("team-alpha", spec, FALSE)
    \/ \E p \in AdmitPolicies : PolicyApply("team-alpha", p)
    \/ \E id \in SessionIds : Reconcile(id)
    \/ \E f \in BOOLEAN : RecValidatePolicy(f)
    \/ \E f \in BOOLEAN : RecCreateWorkload(f)
    \/ \E f \in BOOLEAN : RecUpdateWorkloadInfo(f)
    \/ \E f \in BOOLEAN : RecUpdatePhase(f)
    \/ \E f \in BOOLEAN : RecCheckWorkloadStatus(f)
    \/ \E id \in SessionIds, st \in {"active", "succeeded", "failed"} :
            JobProgress(id, st)
    \/ PolicyReconcile("team-alpha")
    \/ \E f \in BOOLEAN : PolMarkSessionViolation(f)

SpecAdmitted == Init /\ [][NextAdmitted]_vars

\* the messages handlePending records when the policy rules a Session out
ViolationMessages ==
    {"Policy validation failed: model is not allowed by namespace policy",
     "Policy validation failed: tool is not allowed by namespace policy"}

\* SessionValidator admits Session i under the policy its namespace has now:
\* the case of every Session admitted under a policy that has not changed
admittedNow(i) ==
    /\ sessions[i].exists
    /\ CreateAdmitted(sessions[i].ns, sessions[i].spec)

----------------------------------------------------------------------------
(* Framework types: what is admitted and what can be built *)

\* the switch of SessionReconciler.buildJob: the runner image of a type,
\* with the claude-code runner for a type it does not name
runnerImage(type) ==
    CASE type = "claude-code" -> "ambient-platform/claude-code-runner:latest"
      [] type = "custom-python" -> "ambient-platform/python-runner:latest"
      [] type = "bash-runner" -> "ambient-platform/bash-runner:latest"
      [] OTHER -> "ambient-platform/claude-code-runner:latest"

IsValidFrameworkType(type) == type \in {FrameworkClaudeCode, FrameworkGeneric}

\* Sessions of every type either side knows, and of none
FrameworkSpecs ==
    {SessionSpec("typed", ty, NoList, NoList, 0, ManualTrigger) :
        ty \in availableFrameworks \cup {FrameworkGeneric, ""}}

NextFrameworks ==
    \/ \E spec \in FrameworkSpecs : HandleCreate("team-alpha", spec, FALSE)
    \/ \E id \in SessionIds : Reconcile(id)
    \/ \E f \in BOOLEAN : RecValidatePolicy(f)
    \/ \E f \in BOOLEAN : RecCreateWorkload(f)
    \/ \E f \in BOOLEAN : RecUpdateWorkloadInfo(f)
    \/ \E f \in BOOLEAN : RecUpdatePhase(f)
    \/ \E f \in BOOLEAN : RecCheckWorkloadStatus(f)
    \/ \E id \in SessionIds, st \in {"active", "succeeded", "failed"} :
            JobProgress(id, st)
    \/ \E id \in SessionIds, f \in BOOLEAN : CreateWorkloadForSession(id, f)

SpecFrameworks == Init /\ [][NextFrameworks]_vars

UnsupportedType == "failed to extract workload config: unsupported framework type"

\* C37: every framework type SessionValidator accepts is one a workload can
\* be built for: no Session in the store, all of which the validator
\* admitted, is refused by the workload creator for its type, and the
\* reconciler's buildJob has an image for it.
C37_AdmittedTypeIsBuildable ==
    \A i \in SessionIds :
        sessions[i].exists =>
            /\ workloads[i].err # UnsupportedType
            /\ runnerImage(sessions[i].spec.type) # ""

\* What holds: every Session in the store has a type of availableFrameworks,
\* SessionReconciler.buildJob has an image for each of them, and the
\* workload creator refuses exactly the types IsValidFrameworkType refuses.
C37_CreatorRefusesWhatItDoesNotKnow ==
    \A i \in SessionIds :
        sessions[i].exists =>
            /\ sessions[i].spec.type \in availableFrameworks
            /\ runnerImage(sessions[i].spec.type) # ""
            /\ workloads[i].called =>
                  /\ workloads[i].err = UnsupportedType
                        <=> ~IsValidFrameworkType(sessions[i].spec.type)
                  /\ workloads[i].job.exists => IsValidFrameworkType(sessions[i].spec.type)


----------------------------------------------------------------------------
(* WebhookAuthMiddleware (backend middleware, in webhook_slack_test.go) *)

\* hex(HMAC-SHA256(secret, message)): one string per secret and message
Hmac(secret, message) == "hmac(" \o secret \o "," \o message \o ")"

\* the header as sent
headerValue(signature) == signature.prefix \o signature.mac

verifyGitHubSignatureSHA1(body, mac, secret) == mac = Hmac(secret, body)

verifyGitHubSignature(body, signature, secret) ==
    IF signature.prefix = "sha256=" THEN signature.mac = Hmac(secret, body)
    ELSE IF signature.prefix = "sha1=" THEN verifyGitHubSignatureSHA1(body, signature.mac, secret)
    ELSE headerValue(signature) = Hmac(secret, body)

authenticateGitHubWebhook(req, secret) ==
    IF headerValue(req.signature) = "" THEN FALSE
    ELSE verifyGitHubSignature(req.body, req.signature, secret)

authenticateJiraWebhook(req, secret) ==
    IF req.identifier = "" THEN FALSE
    ELSE req.apiKey = secret

SlackBasestring(timestamp, body) == "v0:" \o timestamp \o ":" \o body

verifySlackSignature(body, signature, timestamp, secret) ==
    IF signature.prefix = "v0=" THEN signature.mac = Hmac(secret, SlackBasestring(timestamp, body))
    ELSE headerValue(signature) = Hmac(secret, SlackBasestring(timestamp, body))

authenticateSlackWebhook(req, secret) ==
    IF headerValue(req.signature) = "" \/ req.timestamp = "" THEN FALSE
    ELSE verifySlackSignature(req.body, req.signature, req.timestamp, secret)

authenticateAPIKey(req, source, apiKeys) ==
    IF req.apiKey = "" THEN FALSE
    ELSE IF ~\E e \in apiKeys : e[1] = source THEN FALSE
    ELSE \E e \in apiKeys : e[1] = source /\ e[2] = req.apiKey

\* the status the middleware answers with; 200 stands for c.Next()
WebhookAuthStatus(config, req) ==
    IF req.source = "" THEN 400
    ELSE IF req.source = "github"
        THEN (IF authenticateGitHubWebhook(req, config.GitHubSecret) THEN 200 ELSE 401)
    ELSE IF req.source = "jira"
        THEN (IF authenticateJiraWebhook(req, config.JiraSecret) THEN 200 ELSE 401)
    ELSE IF req.source = "slack"
        THEN (IF authenticateSlackWebhook(req, config.SlackSecret) THEN 200 ELSE 401)
    ELSE IF authenticateAPIKey(req, req.source, config.APIKeys) THEN 200 ELSE 401

WebhookAuthMiddleware(req) ==
    /\ authed' = [authed EXCEPT !.req = req,
                                !.status = WebhookAuthStatus(authed.config, req),
                                !.passed = WebhookAuthStatus(authed.config, req) = 200]
    /\ UNCHANGED <<workloads, artifacts, resolved, exchanges, sessions, policy, jobs,
                   nextId, rec, pol, upd, api, responses, adm>>

Secrets == {"", "s3cret"}

AuthConfigs ==
    {WebhookAuthConfig(g, j, s, k) :
        g \in Secrets, j \in Secrets, s \in Secrets,
        k \in {{}, {<<"custom", "custom-key">>}}}

AuthBody == "{}"
AuthTimestamp == "1700000000"

\* no signature header, and the signatures GitHub and Slack would send
\* under each secret
AuthSignatures ==
    {NoSignature} \cup
    {Signature("sha256=", Hmac(s, AuthBody)) : s \in Secrets} \cup
    {Signature("v0=", Hmac(s, SlackBasestring(AuthTimestamp, AuthBody))) : s \in Secrets}

AuthRequests ==
    {WebhookRequest(src, sig, ts, ident, key, AuthBody) :
        src \in {"", "github", "jira", "slack", "custom"},
        sig \in AuthSignatures,
        ts \in {"", AuthTimestamp},
        ident \in {"", "webhook-1"},
        key \in {"", "s3cret", "custom-key"}}

InitMiddleware ==
    /\ sessions = [i \in SessionIds |-> NoSession]
    /\ policy = [ns \in Namespaces |-> NoPolicy]
    /\ jobs = [i \in SessionIds |-> NoJob]
    /\ nextId = 0
    /\ rec = RecIdle
    /\ pol = PolIdle
    /\ upd = UpdIdle
    /\ api = ApiIdle
    /\ responses = {}
    /\ adm = AdmIdle
    /\ exchanges = {}
    /\ resolved = NoneResolved
    /\ workloads = NoWorkloads
    /\ artifacts = NoArtifacts
    /\ \E cfg \in AuthConfigs : authed = [NoAuth EXCEPT !.config = cfg]

NextMiddleware == \E req \in AuthRequests : WebhookAuthMiddleware(req)

SpecMiddleware == InitMiddleware /\ [][NextMiddleware]_vars

\* the request carries no signature header and no API key header
presentsNoCredential(req) ==
    /\ headerValue(req.signature) = ""
    /\ req.apiKey = ""

\* C38: WebhookAuthMiddleware never passes a request that presents no
\* credential to the handler, whatever the configured secrets are, an empty
\* secret included.
C38_NoCredentialNeverPasses ==
    authed.passed => ~presentsNoCredential(authed.req)

\* What holds: the only request without a credential that is passed is a
\* Jira request with the webhook identifier header, under an empty
\* JiraSecret; with the secret set, or for any other source, it is stopped.
C38_OnlyJiraUnderEmptySecret ==
    (authed.passed /\ presentsNoCredential(authed.req)) =>
        /\ authed.req.source = "jira"
        /\ authed.req.identifier # ""
        /\ authed.config.JiraSecret = ""


----------------------------------------------------------------------------
(* Reconciling a NamespacePolicy again and again *)

MaxConditions == 4

\* the policies reconciled: one without lists, one that leaves out the model
\* the webhook's Sessions ask for, one that names a model in both lists
FixedPointPolicies ==
    RunPolicies \cup
        {NamespacePolicy(PolicySection(TRUE, List({"claude-3-opus"}), List({"claude-3-opus"})),
                         NoSection, NoSection, 0, 0)}

\* The policy is applied, Sessions arrive, and from its first status write
\* on the policy's spec stays as it is.
NextFixedPoint ==
    \/ /\ nextId < MaxSessions
       /\ handleWebhook("test-api-key-123", "github", LifePayload, FALSE)
    \/ /\ policy["team-alpha"].conditions = <<>>
       /\ \E p \in FixedPointPolicies : PolicyApply("team-alpha", p)
    \/ PolicyReconcileKeeping("team-alpha", TRUE, MaxConditions)
    \/ \E f \in BOOLEAN : PolMarkSessionViolation(f)

SpecFixedPoint == Init /\ [][NextFixedPoint]_vars

\* the spec of the policy, which no step of a reconcile writes
policySpec(p) == [p EXCEPT !.usage = NoUsage, !.conditions = <<>>]

\* the policy of ns has been reconciled, with the status write done, against
\* the Sessions as they are: its conditions say so and its usage is theirs
reconciledAsIs(ns) ==
    /\ policy[ns].exists
    /\ policy[ns].conditions # <<>>
    /\ validatePolicyConfig(policy[ns]) = Nil => policy[ns].usage = updateUsageMetrics(ns)

\* C39: a reconcile of a NamespacePolicy that has been reconciled already,
\* with no change to its spec or to any Session since, leaves the policy's
\* status as it is: status.conditions does not grow.
C39_ReconcileReachesFixedPoint ==
    [][\A ns \in Namespaces :
          (reconciledAsIs(ns) /\ pol.pc = "idle" /\ sessions' = sessions)
              => policy'[ns] = policy[ns]]_vars

\* What a reconcile does to the status: the usage does reach a fixed point
\* (the time of lastReset set aside), and every reconcile whose status
\* write succeeds adds a ConfigValid condition to the ones that are there.
C39_EveryReconcileAppends ==
    [][\A ns \in Namespaces :
          /\ policy[ns].conditions # <<>> => policySpec(policy'[ns]) = policySpec(policy[ns])
          /\ (reconciledAsIs(ns) /\ pol.pc = "idle" /\ sessions' = sessions)
                => policy'[ns].usage = policy[ns].usage
          /\ policy'[ns].conditions # policy[ns].conditions =>
                /\ Len(policy'[ns].conditions) > Len(policy[ns].conditions)
                /\ policy'[ns].conditions[Len(policy'[ns].conditions)].type = "ConfigValid"
                /\ SubSeq(policy'[ns].conditions, 1, Len(policy[ns].conditions))
                      = policy[ns].conditions]_vars


----------------------------------------------------------------------------
(* ArtifactIndexer (backend services, in part_009) *)

MaxArtifactTime == 2

\* time.Now().Unix() at the calls of StoreArtifact
ArtifactTimes == 1..MaxArtifactTime

generateArtifactID(sessionID, t) == "artifact-" \o sessionID \o "-" \o ToString(t)

generateStorageKey(namespace, sessionID, artifactID) ==
    namespace \o "/" \o sessionID \o "/" \o artifactID

\* an entry of the index ConfigMap of a namespace: Data[id] holds the JSON
\* text written by indexArtifact, with these fields among others
IndexEntry(id, sessionID, namespace, storageKey) ==
    [id |-> id, sessionId |-> sessionID, namespace |-> namespace,
     storageKey |-> storageKey]

\* indexArtifact: Data[artifact.ID] is set in the ConfigMap of the namespace
indexArtifact(index, entry) ==
    {e \in index : ~(e.namespace = entry.namespace /\ e.id = entry.id)} \cup {entry}

\* getSessionArtifactsFromIndex: one Artifact for every key of the
\* namespace's ConfigMap, each given the SessionID that was asked for
getSessionArtifactsFromIndex(index, sessionID, namespace) ==
    {[ID |-> e.id, SessionID |-> sessionID] : e \in {x \in index : x.namespace = namespace}}

\* StoreArtifact: Store the data, then index it; when the index write
\* fails the data under the key is deleted again.  (A Store that fails
\* returns with nothing changed.)
StoreArtifact(i, namespace, t, indexFails) ==
    /\ LET sessionID == SessionName(i)
           id == generateArtifactID(sessionID, t)
           key == generateStorageKey(namespace, sessionID, id)
       IN  artifacts' =
              IF indexFails
                THEN [artifacts EXCEPT !.storage = @ \ {key}]
                ELSE [artifacts EXCEPT
                        !.storage = @ \cup {key},
                        !.index = indexArtifact(@, IndexEntry(id, sessionID, namespace, key))]
    /\ UNCHANGED <<authed, workloads, resolved, exchanges, sessions, policy, jobs,
                   nextId, rec, pol, upd, api, responses, adm>>

\* ListSessionArtifacts with no filter and no limit: applyFilters,
\* applySorting and applyPagination hand on what they are given.
ListSessionArtifacts(i, namespace) ==
    /\ artifacts' = [artifacts EXCEPT
            !.listedFor = SessionName(i),
            !.listed = getSessionArtifactsFromIndex(artifacts.index, SessionName(i), namespace)]
    /\ UNCHANGED <<authed, workloads, resolved, exchanges, sessions, policy, jobs,
                   nextId, rec, pol, upd, api, responses, adm>>

\* CleanupSessionArtifacts: DeleteArtifact on every artifact listed.
\* getArtifactFromIndex gives the artifact the JSON text of its entry as
\* StorageKey, so the backend is asked to delete a key it does not hold:
\* where it answers with an error (unknownKeyFails) DeleteArtifact returns
\* before removeFromIndex and the loop goes on, where it does not the entry
\* is removed from the index.  The data under the real key stays either way.
CleanupSessionArtifacts(i, namespace, unknownKeyFails) ==
    /\ LET found == getSessionArtifactsFromIndex(artifacts.index, SessionName(i), namespace)
           ids == {a.ID : a \in found}
       IN  artifacts' = [artifacts EXCEPT
                !.cleaned = SessionName(i),
                !.index = IF unknownKeyFails THEN @
                          ELSE {e \in @ : e.id \notin ids}]
    /\ UNCHANGED <<authed, workloads, resolved, exchanges, sessions, policy, jobs,
                   nextId, rec, pol, upd, api, responses, adm>>

NextArtifacts ==
    \/ \E i \in SessionIds, t \in ArtifactTimes, f \in BOOLEAN :
            StoreArtifact(i, "team-alpha", t, f)
    \/ \E i \in SessionIds : ListSessionArtifacts(i, "team-alpha")
    \/ \E i \in SessionIds, f \in BOOLEAN : CleanupSessionArtifacts(i, "team-alpha", f)

SpecArtifacts == Init /\ [][NextArtifacts]_vars

\* every artifact of the last listing that the index knows was stored for
\* the Session the listing was for
listedOnlyOwn ==
    \A a \in artifacts.listed :
        \A e \in artifacts.index : e.id = a.ID => e.sessionId = artifacts.listedFor

\* C40: ListSessionArtifacts for a Session returns only artifacts stored for
\* that Session, and CleanupSessionArtifacts for a Session deletes only
\* those: an artifact of another Session stays in the index and in storage.
C40_ListAndCleanupKeepToTheSession ==
    /\ []listedOnlyOwn
    /\ [][\A e \in artifacts.index :
            (artifacts'.cleaned # artifacts.cleaned \/ artifacts'.index # artifacts.index)
                /\ e.sessionId # artifacts'.cleaned
              => (e \in artifacts'.index /\ e.storageKey \in artifacts'.storage)]_vars

\* What the indexer does: a listing is the whole index of the tenant,
\* whichever Session is asked for, a cleanup empties that index or leaves
\* it alone, and no cleanup takes anything out of storage.
C40_ListAndCleanupTakeTheWholeTenant ==
    /\ [](\A a \in artifacts.listed : a.SessionID = artifacts.listedFor)
    /\ [][/\ artifacts'.listed # artifacts.listed =>
                {a.ID : a \in artifacts'.listed} = {e.id : e \in artifacts.index}
          /\ artifacts'.index # artifacts.index /\ artifacts'.storage = artifacts.storage
                /\ ~(artifacts.index \subseteq artifacts'.index)
                => artifacts'.index = {}
          /\ artifacts'.cleaned # artifacts.cleaned => artifacts'.storage = artifacts.storage]_vars

====
